---- MODULE Spec2Model ----
(***************************************************************************)
(* A model of scriber_2_screenshots/generate_screenshots.py: the bit-grid  *)
(* overlay decoder, the frame timeline builder, the timeline resolver and  *)
(* the per-action screenshot exporter.                                     *)
(*                                                                         *)
(* Python's None is the empty sequence and a present value v is <<v>>, so  *)
(* that an optional integer never meets a value of another type.           *)
(***************************************************************************)
EXTENDS Integers, Sequences, FiniteSets, TLC

VARIABLES
    pc,              \* position of the function that is running
    frame_results,   \* the timeline: a sequence of FrameOcrResult
    frames,          \* the retained frame images, one per timeline record
    target_ms,       \* find_frame_index: argument of the last call
    mode,            \* find_frame_index: argument of the last call
    found,           \* find_frame_index: outcome of the last call
    payload,         \* bit grid: the elapsed milliseconds that were encoded
    flip,            \* bit grid: the cell flipped after encoding, 0 for none
    roi,             \* decode_encoded_overlay_ms: the region handed to it
    decoded,         \* decode_encoded_overlay_ms: outcome of the call
    fn,              \* the function that opened the frame source
    video,           \* the video file behind the frame source
    crop_rect,       \* the session's crop rectangle, or None
    memory,          \* the number of frames the process has memory to retain
    cap,             \* the cv2.VideoCapture handle
    total_frames,    \* run_template_matching_on_video: local
    frame_index,     \* run_template_matching_on_video: loop variable
    frame_rate_fps,  \* run_template_matching_on_video: local
    error,           \* the exception that ended the function, "" for none
    frame_out,       \* _read_video_frame_at_ms: the frame returned, or None
    actions,         \* capture_action_screenshots: the action list handed in
    actions_in,      \* the action list as it was when the call began
    action_pos,      \* capture_action_screenshots: actions processed so far
    updated_actions, \* capture_action_screenshots: the list being built
    files,           \* an output directory: file name -> image written
    table,           \* screenshot_number_table.csv: its rows, None if no file
    input_dir,       \* main: the directory named on the command line
    session_dirs,    \* main: the session directories resolved from it
    session_pos,     \* main: sessions handed to process_session so far
    outputs,         \* main: the analytics files written, per session
    templates,       \* match_overlay_digits: the template dict handed in
    digit_count,     \* match_overlay_digits: argument
    min_score,       \* match_overlay_digits: argument
    non_black_mask,  \* _extract_digit_crops: non_black_columns
    column_ranges,   \* _extract_digit_crops: column_ranges
    digit_crops,     \* the glyph images cut out of the region
    digit_matches,   \* match_overlay_digits: the best match of each glyph
    template_match   \* match_overlay_digits: the FrameTemplateMatch returned

vars == <<pc, frame_results, frames, target_ms, mode, found,
          payload, flip, roi, decoded,
          fn, video, crop_rect, memory, cap, total_frames, frame_index,
          frame_rate_fps, error, frame_out,
          actions, actions_in, action_pos, updated_actions, files,
          table, input_dir, session_dirs, session_pos, outputs,
          templates, digit_count, min_score, non_black_mask, column_ranges,
          digit_crops, digit_matches, template_match>>

resolverVars == <<target_ms, mode, found>>
decoderVars == <<payload, flip, roi, decoded>>
videoVars == <<fn, video, crop_rect, memory, cap, total_frames, frame_index,
               frame_rate_fps, error, frame_out>>
captureVars == <<actions, actions_in, action_pos, updated_actions, files>>
checkVars == <<table>>
sessionVars == <<input_dir, session_dirs, session_pos, outputs>>
glyphVars == <<templates, digit_count, min_score, non_black_mask, column_ranges,
               digit_crops, digit_matches, template_match>>

(***************************************************************************)
(* Bounds of the model.                                                    *)
(***************************************************************************)
MaxLen == 3          \* longest timeline handed to find_frame_index
MaxMs == 2           \* largest decoded value in those timelines
MaxShift == 2        \* largest frame_index of the first record in them
MaxPayload == 7      \* payloads 0..MaxPayload and the same number below 2^20
MaxCell == 2         \* largest side, in pixels, of a rendered grid cell
MaxFrames == 3       \* most frames a video file holds
MaxActions == 2      \* longest action list handed to the exporter
MaxTimeline == 2     \* longest timeline handed to the exporter
MaxSessions == 3     \* most entries of the directory main is pointed at
MaxDigits == 7       \* largest digit_count, and most glyphs in a region
MaxWidth == 6        \* most pixels of a region handed to the segmenter

(***************************************************************************)
(* Optional values.                                                        *)
(***************************************************************************)
None == <<>>
Some(v) == <<v>>
IsPresent(o) == o # None
Val(o) == o[1]

\* The one element of a singleton set.  A local value that is used more
\* than once is bound as  x \in {value}  so that it is computed once.
The(S) == CHOOSE r \in S : TRUE

Max(a, b) == IF a >= b THEN a ELSE b
Min(a, b) == IF a <= b THEN a ELSE b

(***************************************************************************)
(* FrameOcrResult(frame_index, ms, digit_match_metrics=())                 *)
(***************************************************************************)
FrameOcrResult(idx, ms, metrics) ==
    [frame_index |-> idx, ms |-> ms, digit_match_metrics |-> metrics]

(***************************************************************************)
(* The outcome of a call: a returned value or a raised exception.          *)
(***************************************************************************)
Return(v) == [kind |-> "return", value |-> v, error |-> ""]
Raise(e) == [kind |-> "raise", value |-> 0, error |-> e]
NotCalled == [kind |-> "none", value |-> 0, error |-> ""]

(***************************************************************************)
(* find_frame_index(frame_results, target_ms, mode)                        *)
(***************************************************************************)
HasMs(r) == r.ms # None

ValidRecords(results) == SelectSeq(results, HasMs)

CandidatesBefore_Strict(valid, target) ==
    SelectSeq(valid, LAMBDA r : Val(r.ms) < target)

CandidatesBefore(valid, target) ==
    SelectSeq(valid, LAMBDA r : Val(r.ms) <= target)

CandidatesAfter_Strict(valid, target) ==
    SelectSeq(valid, LAMBDA r : Val(r.ms) > target)

CandidatesAfter(valid, target) ==
    SelectSeq(valid, LAMBDA r : Val(r.ms) >= target)

\* the same without the guard on an empty valid list: valid[0] fails
find_frame_index_NoEmptyGuard(results, target, m) ==
    LET valid == ValidRecords(results) IN
    IF m = "at_or_before" THEN
        LET candidate == CandidatesBefore(valid, target) IN
        IF candidate # <<>> THEN Return(candidate[Len(candidate)].frame_index)
        ELSE IF valid = <<>> THEN Raise("IndexError")
        ELSE Return(valid[1].frame_index)
    ELSE IF m = "at_or_after" THEN
        LET candidate == CandidatesAfter(valid, target) IN
        IF candidate # <<>> THEN Return(candidate[1].frame_index)
        ELSE IF valid = <<>> THEN Raise("IndexError")
        ELSE Return(valid[Len(valid)].frame_index)
    ELSE Raise("ValueError")

\* the same with the second branch taken for every other mode
find_frame_index_DefaultMode(results, target, m) ==
    LET valid == ValidRecords(results) IN
    IF valid = <<>> THEN Return(0)
    ELSE IF m = "at_or_before" THEN
        LET candidate == CandidatesBefore(valid, target) IN
        IF candidate # <<>> THEN Return(candidate[Len(candidate)].frame_index)
        ELSE Return(valid[1].frame_index)
    ELSE
        LET candidate == CandidatesAfter(valid, target) IN
        IF candidate # <<>> THEN Return(candidate[1].frame_index)
        ELSE Return(valid[Len(valid)].frame_index)

\* the same falling back to the last valid record in mode at_or_before
find_frame_index_LastFallback(results, target, m) ==
    LET valid == ValidRecords(results) IN
    IF valid = <<>> THEN Return(0)
    ELSE IF m = "at_or_before" THEN
        LET candidate == CandidatesBefore(valid, target) IN
        IF candidate # <<>> THEN Return(candidate[Len(candidate)].frame_index)
        ELSE Return(valid[Len(valid)].frame_index)
    ELSE IF m = "at_or_after" THEN
        LET candidate == CandidatesAfter(valid, target) IN
        IF candidate # <<>> THEN Return(candidate[1].frame_index)
        ELSE Return(valid[Len(valid)].frame_index)
    ELSE Raise("ValueError")

find_frame_index(results, target, m) ==
    LET valid == ValidRecords(results) IN
    IF valid = <<>> THEN Return(0)
    ELSE IF m = "at_or_before" THEN
        LET candidate == CandidatesBefore(valid, target) IN
        IF candidate # <<>> THEN Return(candidate[Len(candidate)].frame_index)
        ELSE Return(valid[1].frame_index)
    ELSE IF m = "at_or_after" THEN
        LET candidate == CandidatesAfter(valid, target) IN
        IF candidate # <<>> THEN Return(candidate[1].frame_index)
        ELSE Return(valid[Len(valid)].frame_index)
    ELSE Raise("ValueError")

(***************************************************************************)
(* Grayscale images: height, width and one value 0..255 per pixel.         *)
(***************************************************************************)
Image(h, w, px) == [height |-> h, width |-> w, px |-> px]

EmptyImage == Image(0, 0, <<>>)

ImageSize(img) == img.height * img.width

\* int(round(n / d)) for d > 0: Python rounds a tie to the even neighbour
RoundHalfEven(n, d) ==
    LET q == n \div d
        r == n % d
    IN  IF 2 * r < d THEN q
        ELSE IF 2 * r > d THEN q + 1
        ELSE IF q % 2 = 0 THEN q ELSE q + 1

RECURSIVE SumRow(_, _, _, _)
SumRow(px, y, x0, x1) ==
    IF x0 >= x1 THEN 0 ELSE px[<<y, x0>>] + SumRow(px, y, x0 + 1, x1)

RECURSIVE SumCell(_, _, _, _, _)
SumCell(px, y0, y1, x0, x1) ==
    IF y0 >= y1 THEN 0
    ELSE SumRow(px, y0, x0, x1) + SumCell(px, y0 + 1, y1, x0, x1)

(***************************************************************************)
(* Similarity metrics are exact fractions num/den in place of floats.      *)
(***************************************************************************)
Metric(n, d) == [num |-> n, den |-> d]

_normalize_similarity_metric(score) ==
    IF score.num < 0 THEN Metric(0, 1)
    ELSE IF score.num > score.den THEN Metric(1, 1)
    ELSE score

(***************************************************************************)
(* _crc32: the 32-bit register is kept as two 16-bit halves, so that no    *)
(* intermediate value leaves the 32 bits the code masks it to.             *)
(***************************************************************************)
ENCODED_GRID_SIZE == 5
ENCODED_DATA_BITS == 20
ENCODED_CRC_BITS == 5
ENCODED_TOTAL_BITS == ENCODED_DATA_BITS + ENCODED_CRC_BITS

Bit(n, i) == (n \div (2 ^ i)) % 2

RECURSIVE Xor(_, _)
Xor(a, b) ==
    IF a = 0 THEN b
    ELSE IF b = 0 THEN a
    ELSE ((a + b) % 2) + 2 * Xor(a \div 2, b \div 2)

CRC_POLY_HIGH == 60856     \* 0xEDB8
CRC_POLY_LOW == 33568      \* 0x8320

Register(h, l) == [high |-> h, low |-> l]

\* crc = 0xFFFFFFFF
CrcInit == Register(65535, 65535)

\* crc ^= int(byte) & 0xFF
CrcXorByte(crc, byte) == Register(crc.high, Xor(crc.low, byte % 256))

\* the same shift without the polynomial
CrcShift_NoPoly(crc) ==
    The({Register(c.high \div 2, (c.low \div 2) + 32768 * (c.high % 2)) :
            c \in {crc}})

\* mask = -(crc & 1); crc = (crc >> 1) ^ (0xEDB88320 & mask)
CrcShift(crc) ==
    The({LET high == c.high \div 2
             low == (c.low \div 2) + 32768 * (c.high % 2)
         IN  IF c.low % 2 = 1
             THEN Register(Xor(high, CRC_POLY_HIGH), Xor(low, CRC_POLY_LOW))
             ELSE Register(high, low) : c \in {crc}})

RECURSIVE CrcShifts(_, _)
CrcShifts(crc, k) ==
    IF k = 0 THEN crc
    ELSE The({CrcShifts(next, k - 1) : next \in {CrcShift(crc)}})

RECURSIVE CrcBytes(_, _)
CrcBytes(crc, bytes_seq) ==
    IF bytes_seq = <<>> THEN crc
    ELSE The({CrcBytes(next, Tail(bytes_seq)) :
                next \in {CrcShifts(CrcXorByte(crc, Head(bytes_seq)), 8)}})

\* (crc ^ 0xFFFFFFFF) & 0xFFFFFFFF
_crc32(bytes_seq) ==
    LET crc == CrcBytes(CrcInit, bytes_seq) IN
    Register(65535 - crc.high, 65535 - crc.low)

\* reg & ((1 << n) - 1) for n <= 16
LowBits(reg, n) == reg.low % (2 ^ n)

DataBytes(elapsed_ms) ==
    << (elapsed_ms \div 65536) % 256,
       (elapsed_ms \div 256) % 256,
       elapsed_ms % 256 >>

ExpectedCrc(elapsed_ms) == LowBits(_crc32(DataBytes(elapsed_ms)), ENCODED_CRC_BITS)

(***************************************************************************)
(* decode_encoded_overlay_ms(roi)                                          *)
(***************************************************************************)
Decoded(ms, metrics) == [ms |-> ms, metrics |-> metrics]

NotDecoded == Decoded(None, <<>>)

CellOf(k) ==
    [row |-> (k - 1) \div ENCODED_GRID_SIZE, col |-> (k - 1) % ENCODED_GRID_SIZE]

\* darkness of grid cell k (row-major, from 1), normalised
CellDarkness(img, k) ==
    LET c == CellOf(k)
        start_y == RoundHalfEven(c.row * img.height, ENCODED_GRID_SIZE)
        end_y == RoundHalfEven((c.row + 1) * img.height, ENCODED_GRID_SIZE)
        start_x == RoundHalfEven(c.col * img.width, ENCODED_GRID_SIZE)
        end_x == RoundHalfEven((c.col + 1) * img.width, ENCODED_GRID_SIZE)
        size == Max(end_y - start_y, 0) * Max(end_x - start_x, 0)
    IN  IF size = 0 THEN Metric(0, 1)
        ELSE _normalize_similarity_metric(
                Metric(255 * size - SumCell(img.px, start_y, end_y, start_x, end_x),
                       255 * size))

\* the same with a bright cell read as 1
BitOf_Inverted(m) == IF 2 * m.num >= m.den THEN 0 ELSE 1

\* 1 if normalized_darkness >= 0.5 else 0
BitOf(m) == IF 2 * m.num >= m.den THEN 1 ELSE 0

RECURSIVE PayloadOf(_, _)
PayloadOf(bit_values, n) ==
    IF n = 0 THEN 0 ELSE 2 * PayloadOf(bit_values, n - 1) + bit_values[n]

\* the same without the checksum gate
CrcMismatch_Never(received_crc, expected_crc) == FALSE

\* received_crc != expected_crc
CrcMismatch(received_crc, expected_crc) == received_crc # expected_crc

\* the same returning the 25-bit word, checksum bits included
decode_encoded_overlay_ms_WholeWord(img) ==
    IF ImageSize(img) = 0 THEN NotDecoded
    ELSE IF img.height < ENCODED_GRID_SIZE \/ img.width < ENCODED_GRID_SIZE
    THEN NotDecoded
    ELSE
        LET metrics == [k \in 1 .. ENCODED_GRID_SIZE * ENCODED_GRID_SIZE |->
                            CellDarkness(img, k)]
            bit_values == [k \in 1 .. Len(metrics) |-> BitOf(metrics[k])]
            pl == PayloadOf(bit_values, ENCODED_TOTAL_BITS)
        IN  IF CrcMismatch(pl % (2 ^ ENCODED_CRC_BITS),
                           ExpectedCrc(pl \div (2 ^ ENCODED_CRC_BITS)))
            THEN Decoded(None, metrics)
            ELSE Decoded(Some(pl), metrics)

decode_encoded_overlay_ms(img) ==
    IF ImageSize(img) = 0 THEN NotDecoded
    ELSE IF img.height < ENCODED_GRID_SIZE \/ img.width < ENCODED_GRID_SIZE
    THEN NotDecoded
    ELSE
        LET metrics == [k \in 1 .. ENCODED_GRID_SIZE * ENCODED_GRID_SIZE |->
                            CellDarkness(img, k)]
            bit_values == [k \in 1 .. Len(metrics) |-> BitOf(metrics[k])]
        IN  IF Len(bit_values) < ENCODED_TOTAL_BITS THEN Decoded(None, metrics)
            ELSE
                LET pl == PayloadOf(bit_values, ENCODED_TOTAL_BITS)
                    received_crc == pl % (2 ^ ENCODED_CRC_BITS)
                    elapsed_ms == pl \div (2 ^ ENCODED_CRC_BITS)
                IN  IF elapsed_ms < 0 \/ elapsed_ms > (2 ^ ENCODED_DATA_BITS) - 1
                    THEN Decoded(None, metrics)
                    ELSE IF CrcMismatch(received_crc, ExpectedCrc(elapsed_ms))
                    THEN Decoded(None, metrics)
                    ELSE Decoded(Some(elapsed_ms), metrics)

(***************************************************************************)
(* The encoder of the overlay, as the tests render it: 25 bits, most       *)
(* significant first, 1 drawn dark (0) and 0 drawn light (255).            *)
(***************************************************************************)
EncodeWord(target) == target * (2 ^ ENCODED_CRC_BITS) + ExpectedCrc(target)

\* bit k of the 25, row-major from 1, most significant first
BitAt(word, k) == Bit(word, ENCODED_TOTAL_BITS - k)

\* the word with bit f inverted, unchanged for f = 0
FlipBit(word, f) ==
    IF f = 0 THEN word
    ELSE IF BitAt(word, f) = 1 THEN word - 2 ^ (ENCODED_TOTAL_BITS - f)
    ELSE word + 2 ^ (ENCODED_TOTAL_BITS - f)

Render(word, cell) ==
    Image(ENCODED_GRID_SIZE * cell, ENCODED_GRID_SIZE * cell,
          [p \in (0 .. ENCODED_GRID_SIZE * cell - 1) \X (0 .. ENCODED_GRID_SIZE * cell - 1) |->
              IF BitAt(word, (p[1] \div cell) * ENCODED_GRID_SIZE + (p[2] \div cell) + 1) = 1
              THEN 0 ELSE 255])

Payloads ==
    (0 .. MaxPayload)
    \cup {(2 ^ ENCODED_DATA_BITS) - 1 - k : k \in 0 .. MaxPayload}
    \cup {2 ^ i : i \in 0 .. ENCODED_DATA_BITS - 1}
    \cup {54321}

(***************************************************************************)
(* The frame source.  A video file opens or not, holds the frames that     *)
(* read() yields in order, and reports a frame count and a frame rate of   *)
(* its own, which need not agree with the frames it holds.                 *)
(***************************************************************************)
Video(opens, held, count, fps) ==
    [opens |-> opens, frames |-> held, frame_count |-> count, fps |-> fps]

\* a frame rate: a finite number of frames per second, nan or inf
Fps(kind, value) == [kind |-> kind, value |-> value]

NoVideo == Video(FALSE, <<>>, 0, Fps("finite", 0))

\* cv2.VideoCapture(path), before it is constructed and after
NoCap == [created |-> FALSE, opened |-> FALSE, released |-> FALSE, pos |-> 0]
VideoCapture(v) ==
    [created |-> TRUE, opened |-> v.opens, released |-> FALSE, pos |-> 0]

\* cap.read() succeeds while the file holds a frame at the position
ReadOk(c, v) == c.opened /\ ~c.released /\ c.pos < Len(v.frames)

\* cap.release()
Release(c) == [c EXCEPT !.released = TRUE]

\* a bound of a[start:stop] on an axis of length n
SliceBound(i, n) == IF i < 0 THEN Max(i + n, 0) ELSE Min(i, n)

Rect(left, top, width, height) ==
    [left |-> left, top |-> top, width |-> width, height |-> height]

\* frame[top : top + height, left : left + width]
_crop_frame(frame, rect) ==
    IF rect = None THEN frame
    ELSE
        LET r == Val(rect)
            y0 == SliceBound(r.top, frame.height)
            y1 == SliceBound(r.top + r.height, frame.height)
            x0 == SliceBound(r.left, frame.width)
            x1 == SliceBound(r.left + r.width, frame.width)
            h == Max(y1 - y0, 0)
            w == Max(x1 - x0, 0)
        IN  Image(h, w, [p \in (0 .. h - 1) \X (0 .. w - 1) |->
                            frame.px[<<y0 + p[1], x0 + p[2]>>]])

\* frame_rate_fps: 0.0 unless finite and positive
FrameRate(fps) ==
    IF fps.kind # "finite" \/ fps.value <= 0 THEN 0 ELSE fps.value

\* the same with an absent value left out of the timeline
AppendResult_SkipAbsent(results, idx, dec) ==
    IF dec.ms = None THEN results
    ELSE Append(results, FrameOcrResult(idx, dec.ms, dec.metrics))

\* frame_results.append(FrameOcrResult(frame_index, ms, metrics))
AppendResult(results, idx, dec) ==
    Append(results, FrameOcrResult(idx, dec.ms, dec.metrics))

(***************************************************************************)
(* The videos, frames and crop rectangles the model runs on.               *)
(***************************************************************************)
FrameSamples ==
    { Render(EncodeWord(1), 1),
      Render(EncodeWord((2 ^ ENCODED_DATA_BITS) - 1), 1),
      Render(FlipBit(EncodeWord(0), 1), 1) }

CropRectSamples == {None, Some(Rect(0, 0, 120, 50)), Some(Rect(1, 0, 4, 5))}

FpsSamples ==
    {Fps("nan", 0), Fps("inf", 0), Fps("finite", 0 - 1), Fps("finite", 0),
     Fps("finite", 2)}

VideoSamples ==
    { Video(opens, held, count, fps) :
        opens \in BOOLEAN,
        held \in UNION {[1 .. n -> FrameSamples] : n \in 0 .. MaxFrames},
        count \in (0 - 1) .. (MaxFrames + 1),
        fps \in FpsSamples }

(***************************************************************************)
(* capture_action_screenshots(actions, frame_results, frames, dir).  An    *)
(* action is a dict: a function from the keys it has to their values.  A   *)
(* timeSinceVideoStartNs that is present is None (JSON null) or <<ns>>.    *)
(***************************************************************************)
NS_PER_MS == 1000000
BEFORE_OFFSET_MS == 300
AFTER_OFFSET_MS == 800

\* action.get(key), None when the key is missing
Get(action, key) == IF key \in DOMAIN action THEN action[key] ELSE None

\* int(round((action.get("timeSinceVideoStartNs") or 0) / 1_000_000))
TargetMs(action) ==
    LET ns == IF "timeSinceVideoStartNs" \in DOMAIN action
                    /\ action["timeSinceVideoStartNs"] # None
               THEN Val(action["timeSinceVideoStartNs"]) ELSE 0
    IN  RoundHalfEven(ns, NS_PER_MS)

\* the same without the clamp at 0
BeforeTarget_Unclamped(target) == target - BEFORE_OFFSET_MS

\* max(target_ms - 300, 0)
BeforeTarget(target) == Max(target - BEFORE_OFFSET_MS, 0)

AfterTarget(target) == target + AFTER_OFFSET_MS

\* action.get("actionId") or f"step_{action.get('stepNumber', 'unknown')}"
ActionId(action) ==
    IF "actionId" \in DOMAIN action /\ action["actionId"] # ""
    THEN action["actionId"]
    ELSE IF "stepNumber" \in DOMAIN action
         THEN "step_" \o ToString(action["stepNumber"])
         ELSE "step_unknown"

\* screenshots_dir / f"{action_id}_{which}.png", relative to the directory
ScreenshotPath(action_id, which) == action_id \o "_" \o which \o ".png"

ScreenshotTimes(target) ==
    [before |-> BeforeTarget(target), at |-> target, after |-> AfterTarget(target)]

ScreenshotPaths(action_id) ==
    [before |-> ScreenshotPath(action_id, "before"),
     at |-> ScreenshotPath(action_id, "at"),
     after |-> ScreenshotPath(action_id, "after")]

\* the same keeping a value the action already carries
AugmentedCopy_KeepExisting(action, times, paths) ==
    [k \in DOMAIN action \cup {"screenshotTimesMs", "screenshots"} |->
        IF k \in DOMAIN action THEN action[k]
        ELSE IF k = "screenshotTimesMs" THEN times
        ELSE paths]

\* dict(action) with the two fields assigned
AugmentedCopy(action, times, paths) ==
    [k \in DOMAIN action \cup {"screenshotTimesMs", "screenshots"} |->
        IF k = "screenshotTimesMs" THEN times
        ELSE IF k = "screenshots" THEN paths
        ELSE action[k]]

\* the same with action_copy bound to the input dict itself
InputAfterCopy_Aliased(acts, i, action_copy) == [acts EXCEPT ![i] = action_copy]

\* the input list after action_copy = dict(action) was filled in: the copy
\* is a dict of its own, so the list and its dicts are as they were
InputAfterCopy(acts, i, action_copy) == acts

\* cv2.imwrite(path, frame)
WriteFile(dir, path, frame) ==
    [f \in DOMAIN dir \cup {path} |-> IF f = path THEN frame ELSE dir[f]]

\* frames[idx], for idx >= 0
InRange(seq, idx) == idx < Len(seq)

(***************************************************************************)
(* The actions, timelines and frames the exporter is run on.  A timeline   *)
(* is one the frame pass builds: record i has frame_index i and there is   *)
(* one retained frame per record.                                          *)
(***************************************************************************)
StaleTimes == [before |-> 0, at |-> 7, after |-> 807]
StalePaths == [before |-> "old_before.png", at |-> "old_at.png", after |-> "old_after.png"]

ActionValues ==
    [ type : {"click"},
      timeSinceVideoStartNs : {Some(2500000), Some(500000000)},
      actionId : {"a1"},
      stepNumber : {1},
      screenshotTimesMs : {StaleTimes},
      screenshots : {StalePaths} ]

ActionKeySets ==
    { {"type"} \cup ns \cup id \cup step \cup old :
        ns \in {{}, {"timeSinceVideoStartNs"}},
        id \in {{}, {"actionId"}},
        step \in {{}, {"stepNumber"}},
        old \in {{}, {"screenshotTimesMs", "screenshots"}} }

ActionSamples ==
    { [k \in keys |-> full[k]] : keys \in ActionKeySets, full \in ActionValues }

ActionLists == UNION {[1 .. n -> ActionSamples] : n \in 0 .. MaxActions}

CaptureMs == {None, Some(500), Some(1300)}

\* the retained frame of index i: one pixel of gray level i
FrameOf(i) == Image(1, 1, [p \in (0 .. 0) \X (0 .. 0) |-> i])

BuiltTimeline(values) ==
    [i \in 1 .. Len(values) |-> FrameOcrResult(i - 1, values[i], <<>>)]

RetainedFrames(n) == [i \in 1 .. n |-> FrameOf(i - 1)]

(***************************************************************************)
(* write_number_check_outputs(frame_results, frames, crop_rect, output_dir, *)
(* frame_rate_fps).  The directory is a function from file names to the    *)
(* images written; the table is the sequence of rows below its header.     *)
(***************************************************************************)
DEFAULT_DIGIT_COUNT == 6

\* text padded on the left with zeros to a width
RECURSIVE PadZeros(_, _)
PadZeros(text, width) ==
    IF Len(text) >= width THEN text ELSE PadZeros("0" \o text, width)

\* f"second_{second:06d}.png"
ScreenshotName(second) == "second_" \o PadZeros(ToString(second), 6) \o ".png"

\* a name that output_dir.glob("second_*.png") yields
IsSecondImage(name) ==
    /\ Len(name) >= 11
    /\ SubSeq(name, 1, 7) = "second_"
    /\ SubSeq(name, Len(name) - 3, Len(name)) = ".png"

\* the same with no stale image removed
ClearStaleImages_Kept(dir) == dir

\* for stale_image in output_dir.glob("second_*.png"): stale_image.unlink()
ClearStaleImages(dir) ==
    [f \in {g \in DOMAIN dir : ~IsSecondImage(g)} |-> dir[f]]

\* metrics[: max(0, digit_count)], padded with None to digit_count entries
_pad_digit_metrics(metrics, count) ==
    [i \in 1 .. Max(count, 0) |->
        IF i <= Len(metrics) THEN metrics[i] ELSE None]

\* f"{metric:.6f}"
FormatFixed6(m) ==
    LET micro == RoundHalfEven(m.num * 1000000, m.den) IN
    ToString(micro \div 1000000) \o "." \o PadZeros(ToString(micro % 1000000), 6)

\* f"{metric:.6f}" if metric is not None else ""
MetricCell(metric) == IF metric = None THEN "" ELSE FormatFixed6(Val(metric))

\* the per-cell metrics of a decoded frame as optional values
PresentMetrics(metrics) == [i \in 1 .. Len(metrics) |-> Some(metrics[i])]

\* result.ms if result.ms is not None else "None", as csv writes it
MsCell(ms) == IF ms = None THEN "None" ELSE ToString(Val(ms))

\* the same with the first frame only when the frame rate is unknown
SecondFrameIndices_FirstOnly(available_count, fps) ==
    IF fps > 0
    THEN [s \in 1 .. ((available_count - 1) \div fps) + 1 |->
            Max(0, Min((s - 1) * fps, available_count - 1))]
    ELSE <<0>>

\* second_frame_indices, for a whole number of frames per second
SecondFrameIndices(available_count, fps) ==
    IF fps > 0
    THEN [s \in 1 .. ((available_count - 1) \div fps) + 1 |->
            Max(0, Min((s - 1) * fps, available_count - 1))]
    ELSE [s \in 1 .. available_count |-> s - 1]

\* one row of the table
TableRow(screenshot_name, result) ==
    [screenshot_name |-> screenshot_name,
     id |-> ToString(result.frame_index),
     ocr_ms |-> MsCell(result.ms),
     metric_cells |->
        [i \in 1 .. DEFAULT_DIGIT_COUNT |->
            MetricCell(_pad_digit_metrics(PresentMetrics(result.digit_match_metrics),
                                          DEFAULT_DIGIT_COUNT)[i])]]

\* the rows written for the selected frames
TableRows(indices, results) ==
    [s \in 1 .. Len(indices) |-> TableRow(ScreenshotName(s - 1), results[indices[s] + 1])]

\* the directory after cv2.imwrite of each selected frame, cropped
WriteScreenshots(dir, indices, held, rect) ==
    [f \in DOMAIN dir \cup {ScreenshotName(s - 1) : s \in 1 .. Len(indices)} |->
        IF \E s \in 1 .. Len(indices) : f = ScreenshotName(s - 1)
        THEN _crop_frame(held[indices[(CHOOSE s \in 1 .. Len(indices) :
                                          f = ScreenshotName(s - 1))] + 1], rect)
        ELSE dir[f]]

\* what an earlier run left in the directory
StaleImage == Image(1, 1, [p \in (0 .. 0) \X (0 .. 0) |-> 7])

StaleDirectory ==
    [f \in {"second_999999.png", "second_000000.png", "second_.png",
            "second_000001.txt", "notes.png"} |-> StaleImage]

StaleTable ==
    Some(<< [screenshot_name |-> "second_999999.png", id |-> "9", ocr_ms |-> "None",
             metric_cells |-> [i \in 1 .. DEFAULT_DIGIT_COUNT |-> ""]] >>)

(***************************************************************************)
(* Values of the action log as json.load yields them: an integer, a float  *)
(* (a fraction num/den), a string, null or a dict.  int(x) returns an      *)
(* integer or raises.                                                      *)
(***************************************************************************)
JsonInt(n) == [kind |-> "int", value |-> n]
JsonFloat(n, d) == [kind |-> "float", num |-> n, den |-> d]
JsonStr(text) == [kind |-> "str", text |-> text]
JsonNull == [kind |-> "null"]
JsonDict(fields) == [kind |-> "dict", fields |-> fields]

DecimalDigits == "0123456789"

CharAt(text, i) == SubSeq(text, i, i)

IsDigit(c) == \E d \in 1 .. 10 : CharAt(DecimalDigits, d) = c

DigitValue(c) == (CHOOSE d \in 1 .. 10 : CharAt(DecimalDigits, d) = c) - 1

\* the number written by the decimal digits text[1 .. n]
RECURSIVE DigitsValue(_, _)
DigitsValue(text, n) ==
    IF n = 0 THEN 0
    ELSE 10 * DigitsValue(text, n - 1) + DigitValue(CharAt(text, n))

AllDigits(text) == Len(text) > 0 /\ \A i \in 1 .. Len(text) : IsDigit(CharAt(text, i))

\* int(text): decimal digits after an optional sign, ValueError otherwise
IntOfStr(text) ==
    IF Len(text) > 1 /\ CharAt(text, 1) = "-" /\ AllDigits(SubSeq(text, 2, Len(text)))
    THEN Return(0 - DigitsValue(SubSeq(text, 2, Len(text)), Len(text) - 1))
    ELSE IF Len(text) > 1 /\ CharAt(text, 1) = "+" /\ AllDigits(SubSeq(text, 2, Len(text)))
    THEN Return(DigitsValue(SubSeq(text, 2, Len(text)), Len(text) - 1))
    ELSE IF AllDigits(text) THEN Return(DigitsValue(text, Len(text)))
    ELSE Raise("ValueError")

\* int(x) of a finite float: the fraction is dropped, towards zero
Truncate(n, d) == IF n >= 0 THEN n \div d ELSE 0 - ((0 - n) \div d)

\* int(x)
IntOf(v) ==
    IF v.kind = "int" THEN Return(v.value)
    ELSE IF v.kind = "float" THEN Return(Truncate(v.num, v.den))
    ELSE IF v.kind = "str" THEN IntOfStr(v.text)
    ELSE Raise("TypeError")

\* int(rect[key]): KeyError when the dict has no such key
IntField(fields, key) ==
    IF key \notin DOMAIN fields THEN Raise("KeyError") ELSE IntOf(fields[key])

\* action.get(key): Python's None when the key is missing, as for null
GetJson(action, key) == IF key \in DOMAIN action THEN action[key] ELSE JsonNull

\* `not rect`: None, an empty dict, an empty string or a zero
Falsy(rect) ==
    \/ rect.kind = "null"
    \/ rect.kind = "dict" /\ DOMAIN rect.fields = {}
    \/ rect.kind = "str" /\ rect.text = ""
    \/ rect.kind = "int" /\ rect.value = 0
    \/ rect.kind = "float" /\ rect.num = 0

RectKeys == <<"left", "top", "width", "height">>

\* _normalize_crop_rect(rect): rect["left"] of a value that is not a dict
\* raises TypeError, which is caught with KeyError and ValueError
_normalize_crop_rect(rect) ==
    IF Falsy(rect) THEN None
    ELSE IF rect.kind # "dict" THEN None
    ELSE
        LET ints == [i \in 1 .. 4 |-> IntField(rect.fields, RectKeys[i])] IN
        IF \E i \in 1 .. 4 : ints[i].kind = "raise" THEN None
        ELSE IF ints[3].value <= 0 \/ ints[4].value <= 0 THEN None
        ELSE Some(Rect(ints[1].value, ints[2].value, ints[3].value, ints[4].value))

FALLBACK_CROP_RECT == Rect(0, 0, 120, 50)

\* the rectangle of the first action whose field `key` is a valid one
RECURSIVE FirstRect(_, _, _)
FirstRect(acts, key, i) ==
    IF i > Len(acts) THEN None
    ELSE IF _normalize_crop_rect(GetJson(acts[i], key)) # None
    THEN _normalize_crop_rect(GetJson(acts[i], key))
    ELSE FirstRect(acts, key, i + 1)

\* the same in one pass: each action's two fields before the next action
RECURSIVE FirstRectOfEither(_, _)
FirstRectOfEither(acts, i) ==
    IF i > Len(acts) THEN None
    ELSE IF _normalize_crop_rect(GetJson(acts[i], "encodedOcrCropRect")) # None
    THEN _normalize_crop_rect(GetJson(acts[i], "encodedOcrCropRect"))
    ELSE IF _normalize_crop_rect(GetJson(acts[i], "ocrCropRect")) # None
    THEN _normalize_crop_rect(GetJson(acts[i], "ocrCropRect"))
    ELSE FirstRectOfEither(acts, i + 1)

determine_crop_rect_OnePass(acts) ==
    IF FirstRectOfEither(acts, 1) # None THEN Val(FirstRectOfEither(acts, 1))
    ELSE FALLBACK_CROP_RECT

determine_crop_rect(acts) ==
    IF FirstRect(acts, "encodedOcrCropRect", 1) # None
    THEN Val(FirstRect(acts, "encodedOcrCropRect", 1))
    ELSE IF FirstRect(acts, "ocrCropRect", 1) # None
    THEN Val(FirstRect(acts, "ocrCropRect", 1))
    ELSE FALLBACK_CROP_RECT

(***************************************************************************)
(* The action logs determine_crop_rect is run on.                          *)
(***************************************************************************)
RectDict(left, top, width, height) ==
    JsonDict([left |-> left, top |-> top, width |-> width, height |-> height])

EncodedRectSamples ==
    { RectDict(JsonInt(10), JsonInt(20), JsonInt(30), JsonInt(40)),
      RectDict(JsonStr("11"), JsonFloat(41, 2), JsonStr("+31"), JsonInt(41)),
      RectDict(JsonInt(0 - 5), JsonStr("-1"), JsonInt(12), JsonInt(13)),
      RectDict(JsonInt(0), JsonInt(0), JsonFloat(1, 2), JsonInt(5)),
      RectDict(JsonInt(0), JsonInt(0), JsonInt(5), JsonStr("tall")),
      RectDict(JsonInt(0), JsonInt(0), JsonInt(5), JsonInt(0 - 5)),
      JsonDict([left |-> JsonInt(0), top |-> JsonNull, width |-> JsonInt(5)]),
      JsonDict(<<>>),
      JsonStr("0,0,5,5"),
      JsonNull }

OcrRectSamples ==
    { RectDict(JsonInt(1), JsonInt(2), JsonInt(3), JsonInt(4)),
      RectDict(JsonInt(6), JsonInt(0 - 7), JsonInt(8), JsonInt(9)),
      RectDict(JsonInt(1), JsonInt(2), JsonInt(0), JsonInt(4)) }

CropActions ==
    { [type |-> "click"] }
    \cup { [type |-> "click", encodedOcrCropRect |-> e] : e \in EncodedRectSamples }
    \cup { [type |-> "click", ocrCropRect |-> o] : o \in OcrRectSamples }
    \cup { [type |-> "click", encodedOcrCropRect |-> e, ocrCropRect |-> o] :
             e \in EncodedRectSamples, o \in OcrRectSamples }

CropActionLists == UNION {[1 .. n -> CropActions] : n \in 0 .. MaxActions}

(***************************************************************************)
(* The glyph segmenter and the fixed-template decoder, on two-level images *)
(* (every pixel 0 or 255), for which Otsu's threshold leaves each pixel as *)
(* it is.                                                                  *)
(***************************************************************************)
Pixels(h, w) == (0 .. h - 1) \X (0 .. w - 1)

\* cv2.threshold(gray, 0, 255, THRESH_BINARY | THRESH_OTSU) on such an image
_build_otsu_binary(img) ==
    Image(img.height, img.width,
          [p \in Pixels(img.height, img.width) |-> IF img.px[p] > 0 THEN 255 ELSE 0])

_normalize_binary_digit_image(img) == _build_otsu_binary(img)

\* otsu_binary.max(axis=0) > 0, one boolean per column
NonBlackColumns(binary) ==
    [x \in 1 .. binary.width |->
        \E y \in 0 .. binary.height - 1 : binary.px[<<y, x - 1>>] > 0]

\* the same closing a range one column late
RECURSIVE RangesLoop_LateEnd(_, _, _, _)
RangesLoop_LateEnd(mask, idx, start_idx, ranges) ==
    IF idx >= Len(mask)
    THEN IF start_idx # None THEN Append(ranges, <<Val(start_idx), Len(mask)>>)
         ELSE ranges
    ELSE IF start_idx = None /\ mask[idx + 1]
    THEN RangesLoop_LateEnd(mask, idx + 1, Some(idx), ranges)
    ELSE IF start_idx # None /\ ~mask[idx + 1]
    THEN RangesLoop_LateEnd(mask, idx + 1, None, Append(ranges, <<Val(start_idx), idx + 1>>))
    ELSE RangesLoop_LateEnd(mask, idx + 1, start_idx, ranges)

\* the loop of _find_non_black_ranges from index idx on; mask[idx] of the
\* code is mask[idx + 1] here
RECURSIVE RangesLoop(_, _, _, _)
RangesLoop(mask, idx, start_idx, ranges) ==
    IF idx >= Len(mask)
    THEN IF start_idx # None THEN Append(ranges, <<Val(start_idx), Len(mask)>>)
         ELSE ranges
    ELSE IF start_idx = None /\ mask[idx + 1]
    THEN RangesLoop(mask, idx + 1, Some(idx), ranges)
    ELSE IF start_idx # None /\ ~mask[idx + 1]
    THEN RangesLoop(mask, idx + 1, None, Append(ranges, <<Val(start_idx), idx>>))
    ELSE RangesLoop(mask, idx + 1, start_idx, ranges)

_find_non_black_ranges(mask) ==
    IF Len(mask) = 0 THEN <<>>
    ELSE RangesLoop(mask, 1, IF mask[1] THEN Some(0) ELSE None, <<>>)

\* img[:, start:end] and img[top:bottom, :]
ColumnSlice(img, start, end) ==
    Image(img.height, end - start,
          [p \in Pixels(img.height, end - start) |-> img.px[<<p[1], p[2] + start>>]])

RowSlice(img, top, bottom) ==
    Image(bottom - top, img.width,
          [p \in Pixels(bottom - top, img.width) |-> img.px[<<p[1] + top, p[2]>>]])

\* np.flatnonzero(row_max > 0)
NonBlackRows(binary) ==
    {y \in 0 .. binary.height - 1 :
        \E x \in 0 .. binary.width - 1 : binary.px[<<y, x>>] > 0}

\* the crops of the ranges from the k-th on
RECURSIVE DigitCrops(_, _, _, _)
DigitCrops(img, binary, ranges, k) ==
    IF k > Len(ranges) THEN <<>>
    ELSE
        LET digit_crop == ColumnSlice(img, ranges[k][1], ranges[k][2])
            rows == NonBlackRows(ColumnSlice(binary, ranges[k][1], ranges[k][2]))
        IN  IF ImageSize(digit_crop) = 0 \/ rows = {}
            THEN DigitCrops(img, binary, ranges, k + 1)
            ELSE <<RowSlice(digit_crop,
                        CHOOSE y \in rows : \A z \in rows : y <= z,
                        (CHOOSE y \in rows : \A z \in rows : y >= z) + 1)>>
                 \o DigitCrops(img, binary, ranges, k + 1)

_extract_digit_crops(img, binary) ==
    DigitCrops(img, binary, _find_non_black_ranges(NonBlackColumns(binary)), 1)

\* cv2.copyMakeBorder(image, 1, 1, 1, 1, BORDER_CONSTANT, value=0)
_add_black_border(img) ==
    Image(img.height + 2, img.width + 2,
          [p \in Pixels(img.height + 2, img.width + 2) |->
              IF p[1] = 0 \/ p[1] = img.height + 1 \/ p[2] = 0 \/ p[2] = img.width + 1
              THEN 0 ELSE img.px[<<p[1] - 1, p[2] - 1>>]])

\* cv2.resize(image, (width, height), INTER_NEAREST): pixel (y, x) is taken
\* from (floor(y * h / height), floor(x * w / width))
_resize_to_shape(img, target_height, target_width) ==
    IF target_height <= 0 \/ target_width <= 0 THEN img
    ELSE Image(target_height, target_width,
               [p \in Pixels(target_height, target_width) |->
                   img.px[<<Min((p[1] * img.height) \div target_height, img.height - 1),
                            Min((p[2] * img.width) \div target_width, img.width - 1)>>]])

AbsDiff(a, b) == IF a >= b THEN a - b ELSE b - a

RECURSIVE SumAbsDiff(_, _, _)
SumAbsDiff(a, b, n) ==
    IF n = 0 THEN 0
    ELSE LET p == <<(n - 1) \div a.width, (n - 1) % a.width>> IN
         AbsDiff(a.px[p], b.px[p]) + SumAbsDiff(a, b, n - 1)

\* 1.0 - mean(absdiff) / 255.0, normalised
_compute_digit_similarity(candidate, template) ==
    LET normalized_template == _normalize_binary_digit_image(template)
        resized_candidate ==
            _resize_to_shape(_normalize_binary_digit_image(candidate),
                             normalized_template.height, normalized_template.width)
        size == ImageSize(normalized_template)
    IN  _normalize_similarity_metric(
            Metric(255 * size - SumAbsDiff(resized_candidate, normalized_template, size),
                   255 * size))

(***************************************************************************)
(* Fractions: order, sum and lowest terms.                                 *)
(***************************************************************************)
RECURSIVE GCD(_, _)
GCD(a, b) == IF b = 0 THEN a ELSE GCD(b, a % b)

Lowest(m) ==
    IF m.num = 0 THEN Metric(0, 1)
    ELSE Metric(m.num \div GCD(m.num, m.den), m.den \div GCD(m.num, m.den))

AtLeast(a, b) == a.num * b.den >= b.num * a.den

Below(a, b) == a.num * b.den < b.num * a.den

Plus(a, b) == Lowest(Metric(a.num * b.den + b.num * a.den, a.den * b.den))

(***************************************************************************)
(* _best_digit_match(digit_image, templates).  The templates are a dict:   *)
(* a sequence of (digit, image) in the order of insertion.                 *)
(***************************************************************************)
Template(digit, image) == [digit |-> digit, image |-> image]

Best(digit, similarity) == [digit |-> digit, similarity |-> similarity]

\* the loop from the k-th template on: if similarity >= best_similarity
RECURSIVE BestFrom(_, _, _, _)
BestFrom(digit_image, tpls, k, best) ==
    IF k > Len(tpls) THEN best
    ELSE The({ IF AtLeast(similarity, best.similarity)
               THEN BestFrom(digit_image, tpls, k + 1,
                             Best(Some(tpls[k].digit), similarity))
               ELSE BestFrom(digit_image, tpls, k + 1, best) :
               similarity \in {Lowest(_compute_digit_similarity(digit_image, tpls[k].image))} })

_best_digit_match(digit_image, tpls) ==
    BestFrom(digit_image, tpls, 1, Best(None, Metric(0, 1)))

(***************************************************************************)
(* parse_overlay_digits(input_text, max_digits)                            *)
(***************************************************************************)
MAX_OVERLAY_VALUE == 999999

\* re.sub(r"\s+", "", text), for the blank
RECURSIVE WithoutBlanks(_)
WithoutBlanks(text) ==
    IF Len(text) = 0 THEN ""
    ELSE IF CharAt(text, 1) = " " THEN WithoutBlanks(SubSeq(text, 2, Len(text)))
    ELSE CharAt(text, 1) \o WithoutBlanks(SubSeq(text, 2, Len(text)))

\* the length of the run of digits that starts at position i
RECURSIVE RunLength(_, _)
RunLength(text, i) ==
    IF i > Len(text) \/ ~IsDigit(CharAt(text, i)) THEN 0
    ELSE 1 + RunLength(text, i + 1)

\* re.search(r"\d+", text): the first run of digits, "" when there is none
FirstDigits(text) ==
    IF \A i \in 1 .. Len(text) : ~IsDigit(CharAt(text, i)) THEN ""
    ELSE LET first == CHOOSE i \in 1 .. Len(text) :
                        /\ IsDigit(CharAt(text, i))
                        /\ \A j \in 1 .. i - 1 : ~IsDigit(CharAt(text, j))
         IN  SubSeq(text, first, first + RunLength(text, first) - 1)

parse_overlay_digits(input_text, max_digits) ==
    LET digits == FirstDigits(WithoutBlanks(input_text)) IN
    IF digits = "" THEN None
    ELSE IF Len(digits) > Max(1, max_digits) THEN None
    ELSE IF DigitsValue(digits, Len(digits)) > MAX_OVERLAY_VALUE THEN None
    ELSE Some(DigitsValue(digits, Len(digits)))

(***************************************************************************)
(* match_overlay_digits(roi, templates, digit_count, min_score)            *)
(***************************************************************************)
FrameTemplateMatch(value, score, digit_metrics) ==
    [value |-> value, score |-> score, digit_metrics |-> digit_metrics]

RECURSIVE SumMetrics(_, _)
SumMetrics(metrics, n) ==
    IF n = 0 THEN Metric(0, 1)
    ELSE IF metrics[n] = None THEN SumMetrics(metrics, n - 1)
    ELSE The({Plus(rest, Val(metrics[n])) : rest \in {SumMetrics(metrics, n - 1)}})

PresentCount(metrics) == Cardinality({i \in 1 .. Len(metrics) : metrics[i] # None})

\* the same with a missing metric counted as zero
_average_digit_metric_MissingAsZero(metrics) ==
    IF Len(metrics) = 0 THEN Metric(0, 1)
    ELSE LET total == SumMetrics(metrics, Len(metrics)) IN
         _normalize_similarity_metric(Lowest(Metric(total.num, total.den * Len(metrics))))

_average_digit_metric(metrics) ==
    IF PresentCount(metrics) = 0 THEN Metric(0, 1)
    ELSE LET total == SumMetrics(metrics, Len(metrics)) IN
         _normalize_similarity_metric(
            Lowest(Metric(total.num, total.den * PresentCount(metrics))))

\* the best match of each crop, in order
Matches(crops, tpls) ==
    [k \in 1 .. Len(crops) |->
        _best_digit_match(_add_black_border(_normalize_binary_digit_image(crops[k])), tpls)]

\* digit_crops = _extract_digit_crops(roi, otsu_binary)[:digit_count]
FirstCrops(img, count) ==
    LET crops == _extract_digit_crops(img, _build_otsu_binary(img)) IN
    IF count >= 0 THEN SubSeq(crops, 1, Min(count, Len(crops)))
    ELSE SubSeq(crops, 1, Max(Len(crops) + count, 0))

RECURSIVE Joined(_, _)
Joined(matches, n) ==
    IF n = 0 THEN ""
    ELSE IF matches[n].digit = None THEN Joined(matches, n - 1)
    ELSE Joined(matches, n - 1) \o Val(matches[n].digit)

\* the matched digits and the result of the loop over the matches
MatchResult(matches, count, threshold) ==
    LET digit_metrics ==
            [k \in 1 .. Len(matches) |->
                IF matches[k].digit = None THEN None
                ELSE Some(_normalize_similarity_metric(matches[k].similarity))]
        matched_count == Cardinality({k \in 1 .. Len(matches) : matches[k].digit # None})
        padded_metrics == _pad_digit_metrics(digit_metrics, count)
        aggregate_score == _average_digit_metric(padded_metrics)
        value == parse_overlay_digits(Joined(matches, Len(matches)), count)
    IN  FrameTemplateMatch(
            IF matched_count # count \/ Below(aggregate_score, threshold)
            THEN None ELSE value,
            aggregate_score, padded_metrics)

match_overlay_digits(img, tpls, count, threshold) ==
    IF ImageSize(img) = 0 \/ Len(tpls) = 0
    THEN FrameTemplateMatch(None, Metric(0, 1), _pad_digit_metrics(<<>>, count))
    ELSE The({MatchResult(matches, count, threshold) :
                matches \in {Matches(FirstCrops(img, count), tpls)}})

(***************************************************************************)
(* The regions, templates and thresholds the matcher is run on.            *)
(***************************************************************************)
\* an image of one row, a pixel 255 where the bit is 1
RowImage(bits) ==
    Image(1, Len(bits), [p \in Pixels(1, Len(bits)) |-> 255 * bits[p[2] + 1]])

\* k glyphs of one pixel, each after one blank column
DotRow(k) == RowImage([x \in 1 .. 2 * k |-> (x + 1) % 2])

\* two glyphs of one pixel under a blank row
TwoRows ==
    Image(2, 3, [p \in Pixels(2, 3) |-> IF p[1] = 1 /\ p[2] # 1 THEN 255 ELSE 0])

MatchRois ==
    { DotRow(k) : k \in 0 .. MaxDigits }
    \cup { EmptyImage, TwoRows,
           RowImage(<<0, 1, 1, 0, 1>>),
           RowImage(<<1, 1, 0, 1, 1, 0, 1>>) }

DotTemplate == _add_black_border(RowImage(<<1>>))
BarTemplate == _add_black_border(RowImage(<<1, 1>>))
BlankTemplate == Image(3, 3, [p \in Pixels(3, 3) |-> 0])

TemplateDicts ==
    { <<>>,
      <<Template("1", DotTemplate)>>,
      <<Template("0", DotTemplate)>>,
      <<Template("1", DotTemplate), Template("7", DotTemplate)>>,
      <<Template("2", BarTemplate), Template("1", DotTemplate)>>,
      <<Template("3", BlankTemplate), Template("1", DotTemplate),
        Template("2", BarTemplate)>> }

MinScores == {Metric(0, 1), Metric(43, 100), Metric(1, 1), Metric(101, 100)}

\* the two-level images of a height and at most a width
RoisOfShape(h, w) == { Image(h, w, px) : px \in [Pixels(h, w) -> {0, 255}] }

SegmentRois ==
    UNION { UNION { RoisOfShape(h, w) : w \in 0 .. (MaxWidth \div h) } : h \in 1 .. 2 }

NoMatch == FrameTemplateMatch(None, Metric(0, 1), <<>>)

(***************************************************************************)
(* main: the directory named on the command line and what it holds.  An    *)
(* entry of a directory is a file or a directory; a directory is a session *)
(* when it has a sub-directory 01_scriber, which may hold actions.json and *)
(* video.webm.  Names are numbered in their sorted order.                  *)
(***************************************************************************)
Entry(is_dir, scriber, has_actions, has_video, video_kind) ==
    [is_dir |-> is_dir, scriber |-> scriber, actions |-> has_actions,
     video |-> has_video, video_kind |-> video_kind]

PlainFile == Entry(FALSE, FALSE, FALSE, FALSE, "none")

\* is_session_dir(path): (path / "01_scriber").is_dir()
is_session_dir(entry) == entry.is_dir /\ entry.scriber

Directory(exists, own, children) ==
    [exists |-> exists, is_dir |-> own.is_dir, is_session |-> is_session_dir(own),
     own |-> own, children |-> children]

NoDirectory == Directory(FALSE, PlainFile, <<>>)

SessionDir(name, entry) == [name |-> name, entry |-> entry]

\* sorted(..., key=lambda p: p.name) of the entries with the names in S
RECURSIVE SortedByName(_, _)
SortedByName(children, S) ==
    IF S = {} THEN <<>>
    ELSE LET least == CHOOSE n \in S : \A m \in S : n <= m IN
         <<SessionDir(least, children[least])>> \o SortedByName(children, S \ {least})

\* resolve_session_dirs(target_dir); the target itself has name 0
resolve_session_dirs(dir) ==
    IF dir.is_session THEN Return(<<SessionDir(0, dir.own)>>)
    ELSE
        LET session_names == {n \in DOMAIN dir.children : is_session_dir(dir.children[n])} IN
        IF session_names = {} THEN Raise("RuntimeError")
        ELSE Return(SortedByName(dir.children, session_names))

\* the analytics files of a session, in the order they are written
FRAME_MS_FILE == "ocr_ms_per_frame.txt"
FRAME_MS_TABLE_FILE == "ocr_ms_per_frame_table.csv"
NUMBER_TABLE_FILE == "check_number_ocr/screenshot_number_table.csv"
ACTIONS_FILE == "actions.json"

Outcome(written, raised) == [written |-> written, error |-> raised]

\* the part of process_session below the guard: the video does not open
\* (RuntimeError from the frame pass), opens with no readable frame (the
\* exporter indexes an empty frame list for the first action) or is read
\* and exported
ProcessArtifacts(entry) ==
    IF entry.video_kind = "unopenable" THEN Outcome({}, "RuntimeError")
    ELSE IF entry.video_kind = "empty"
    THEN Outcome({FRAME_MS_FILE, FRAME_MS_TABLE_FILE, NUMBER_TABLE_FILE}, "IndexError")
    ELSE Outcome({FRAME_MS_FILE, FRAME_MS_TABLE_FILE, NUMBER_TABLE_FILE, ACTIONS_FILE}, "")

\* the same without the guard: load_actions opens a missing file, or the
\* frame pass opens a missing video
process_session_NoGuard(entry) ==
    IF ~entry.actions THEN Outcome({}, "FileNotFoundError")
    ELSE IF ~entry.video THEN Outcome({}, "RuntimeError")
    ELSE ProcessArtifacts(entry)

\* process_session(session_dir, ...)
process_session(entry) ==
    IF ~entry.actions \/ ~entry.video THEN Outcome({}, "")
    ELSE ProcessArtifacts(entry)

(***************************************************************************)
(* The directories main is run on.                                         *)
(***************************************************************************)
EntrySamples ==
    { PlainFile,
      Entry(TRUE, FALSE, FALSE, FALSE, "none"),
      Entry(TRUE, TRUE, FALSE, FALSE, "none"),
      Entry(TRUE, TRUE, TRUE, FALSE, "none"),
      Entry(TRUE, TRUE, FALSE, TRUE, "ok"),
      Entry(TRUE, TRUE, TRUE, TRUE, "ok"),
      Entry(TRUE, TRUE, TRUE, TRUE, "unopenable"),
      Entry(TRUE, TRUE, TRUE, TRUE, "empty") }

DirectorySamples ==
    { NoDirectory }
    \cup { Directory(TRUE, own, <<>>) : own \in EntrySamples \ {Entry(TRUE, FALSE, FALSE, FALSE, "none")} }
    \cup { Directory(TRUE, Entry(TRUE, FALSE, FALSE, FALSE, "none"), children) :
             children \in UNION {[names -> EntrySamples] :
                                    names \in SUBSET (1 .. MaxSessions)} }

(***************************************************************************)
(* The variables of a part of the program that is not running.             *)
(***************************************************************************)
DecoderIdle ==
    /\ payload = 0
    /\ flip = 0
    /\ roi = EmptyImage
    /\ decoded = NotDecoded

VideoIdle ==
    /\ fn = ""
    /\ video = NoVideo
    /\ crop_rect = None
    /\ memory = 0
    /\ cap = NoCap
    /\ total_frames = 0
    /\ frame_index = 0
    /\ frame_rate_fps = 0
    /\ error = ""
    /\ frame_out = None

CaptureIdle ==
    /\ actions = <<>>
    /\ actions_in = <<>>
    /\ action_pos = 0
    /\ updated_actions = <<>>
    /\ files = <<>>

CheckIdle == table = None

SessionIdle ==
    /\ input_dir = NoDirectory
    /\ session_dirs = <<>>
    /\ session_pos = 0
    /\ outputs = <<>>

GlyphIdle ==
    /\ templates = <<>>
    /\ digit_count = 0
    /\ min_score = Metric(0, 1)
    /\ non_black_mask = <<>>
    /\ column_ranges = <<>>
    /\ digit_crops = <<>>
    /\ digit_matches = <<>>
    /\ template_match = NoMatch

(***************************************************************************)
(* The timeline resolver on its own: any timeline, any target, any mode.   *)
(***************************************************************************)
Modes == {"at_or_before", "at_or_after", "nearest", ""}
Targets == (0 - 1) .. (MaxMs + 1)

OptionalMs == {None} \cup {Some(v) : v \in 0 .. MaxMs}

\* the records count up from any first frame_index, as in a slice of a
\* timeline the frame pass built
ResolverTimelines ==
    { [i \in 1 .. Len(values) |-> FrameOcrResult(shift + i - 1, values[i], <<>>)] :
        shift \in 0 .. MaxShift,
        values \in UNION {[1 .. n -> OptionalMs] : n \in 0 .. MaxLen} }

InitResolver ==
    /\ pc = "resolver"
    /\ frame_results \in ResolverTimelines
    /\ frames = <<>>
    /\ target_ms = 0
    /\ mode = ""
    /\ found = NotCalled
    /\ DecoderIdle
    /\ VideoIdle
    /\ CaptureIdle
    /\ CheckIdle
    /\ SessionIdle
    /\ GlyphIdle

FindFrameIndex ==
    /\ pc = "resolver"
    /\ \E t \in Targets, m \in Modes :
        /\ target_ms' = t
        /\ mode' = m
        /\ found' = find_frame_index(frame_results, t, m)
    /\ UNCHANGED <<glyphVars, checkVars, sessionVars,
                   pc, frame_results, frames, decoderVars, videoVars, captureVars>>

NextResolver == FindFrameIndex

SpecResolver == InitResolver /\ [][NextResolver]_vars

(***************************************************************************)
(* What the resolver is expected to return, stated over positions.         *)
(***************************************************************************)
PresentPositions == {i \in 1 .. Len(frame_results) : HasMs(frame_results[i])}

PositionsAtOrBefore ==
    {i \in PresentPositions : Val(frame_results[i].ms) <= target_ms}

PositionsAtOrAfter ==
    {i \in PresentPositions : Val(frame_results[i].ms) >= target_ms}

First(S) == CHOOSE i \in S : \A j \in S : i <= j
Last(S) == CHOOSE i \in S : \A j \in S : i >= j

Called == found.kind # "none"

\* C1: in mode at_or_before, with a present value in the timeline, the
\* result is the frame_index of the last record whose present value is
\* <= target_ms, or of the first present record when there is none; the
\* record it comes from always has a present value.
C1_AtOrBefore ==
    (Called /\ mode = "at_or_before" /\ PresentPositions # {}) =>
        LET pos == IF PositionsAtOrBefore # {} THEN Last(PositionsAtOrBefore)
                   ELSE First(PresentPositions) IN
        /\ found = Return(frame_results[pos].frame_index)
        /\ HasMs(frame_results[pos])

\* a tied, non-monotone timeline with an absent record after the answer
C1_Witness ==
    /\ Called /\ mode = "at_or_before"
    /\ Len(frame_results) = 3
    /\ frame_results[1].ms = Some(2)
    /\ frame_results[2].ms = Some(1)
    /\ frame_results[3].ms = None
    /\ target_ms = 1
    /\ frame_results[2].frame_index # frame_results[1].frame_index
    /\ found = Return(frame_results[2].frame_index)

\* C2: in mode at_or_after, with a present value in the timeline, the
\* result is the frame_index of the first record whose present value is
\* >= target_ms, or of the last present record when there is none.
C2_AtOrAfter ==
    (Called /\ mode = "at_or_after" /\ PresentPositions # {}) =>
        LET pos == IF PositionsAtOrAfter # {} THEN First(PositionsAtOrAfter)
                   ELSE Last(PresentPositions) IN
        found = Return(frame_results[pos].frame_index)

C2_Witness ==
    /\ Called /\ mode = "at_or_after"
    /\ Len(frame_results) = 3
    /\ frame_results[1].ms = Some(0)
    /\ frame_results[2].ms = Some(1)
    /\ frame_results[3].ms = None
    /\ target_ms = 2
    /\ frame_results[2].frame_index = 2
    /\ found = Return(2)

\* C3: with no present value in the timeline (the empty timeline
\* included) the result is 0 for every target and every mode.
C3_NoPresentValue ==
    (Called /\ PresentPositions = {}) => found = Return(0)

C3_Witness ==
    /\ Called /\ mode = "at_or_after"
    /\ Len(frame_results) = 2
    /\ PresentPositions = {}
    /\ frame_results[1].frame_index = 1
    /\ found = Return(0)

\* C4 as claimed: a mode other than the two supported ones raises,
\* whatever the timeline is.
C4_Original ==
    (Called /\ mode \notin {"at_or_before", "at_or_after"}) =>
        found.kind = "raise"

\* C4 as amended: an unsupported mode raises ValueError when the timeline
\* has a present value, and returns 0 when it has none.
C4_UnsupportedMode ==
    (Called /\ mode \notin {"at_or_before", "at_or_after"}) =>
        IF PresentPositions # {} THEN found = Raise("ValueError")
        ELSE found = Return(0)

C4_Witness ==
    /\ Called /\ mode = "nearest"
    /\ PresentPositions # {}
    /\ found = Raise("ValueError")

(***************************************************************************)
(* The bit-grid decoder on grids rendered from a payload.                  *)
(***************************************************************************)
InitDecoder ==
    /\ pc = "render"
    /\ frame_results = <<>>
    /\ frames = <<>>
    /\ target_ms = 0
    /\ mode = ""
    /\ found = NotCalled
    /\ payload \in Payloads
    /\ flip \in 0 .. ENCODED_TOTAL_BITS
    /\ roi = EmptyImage
    /\ decoded = NotDecoded
    /\ VideoIdle
    /\ CaptureIdle
    /\ CheckIdle
    /\ SessionIdle
    /\ GlyphIdle

\* draw the grid of the payload, one cell flipped or none
RenderGrid ==
    /\ pc = "render"
    /\ \E cell \in 1 .. MaxCell, word \in {FlipBit(EncodeWord(payload), flip)} :
        roi' = Render(word, cell)
    /\ pc' = "decode"
    /\ UNCHANGED <<glyphVars, checkVars, sessionVars,
                   frame_results, frames, resolverVars, payload, flip, decoded,
                   videoVars, captureVars>>

DecodeGrid ==
    /\ pc = "decode"
    /\ decoded' = decode_encoded_overlay_ms(roi)
    /\ pc' = "decoded"
    /\ UNCHANGED <<glyphVars, checkVars, sessionVars,
                   frame_results, frames, resolverVars, payload, flip, roi,
                   videoVars, captureVars>>

NextDecoder == RenderGrid \/ DecodeGrid

SpecDecoder == InitDecoder /\ [][NextDecoder]_vars

\* payload with bit 7 (value 128) inverted
ToggleBit7(p) == IF Bit(p, 7) = 1 THEN p - 128 ELSE p + 128

\* the cell that carries bit 7 of the payload, row-major from 1
CellOfBit7 == ENCODED_DATA_BITS - 7

\* C5: a grid rendered from the 20 bits of a payload P followed by the low
\* 5 bits of its CRC-32 decodes to P with 25 per-cell metrics; the CRC is
\* the standard one (CRC-32 of three zero bytes is 0xFF41D912, low 5 bits
\* 10010; of 54321 in three bytes, low 5 bits 10011).
C5_RoundTrip ==
    /\ (pc = "decoded" /\ flip = 0) =>
            /\ decoded.ms = Some(payload)
            /\ Len(decoded.metrics) = 25
    /\ (pc = "decoded" /\ flip = 0 /\ payload = 0) =>
            [k \in 1 .. 5 |-> BitOf(decoded.metrics[20 + k])] = <<1, 0, 0, 1, 0>>
    /\ (pc = "decoded" /\ flip = 0 /\ payload = 54321) =>
            [k \in 1 .. 5 |-> BitOf(decoded.metrics[20 + k])] = <<1, 0, 0, 1, 1>>

C5_Witness ==
    /\ pc = "decoded" /\ flip = 0
    /\ payload = (2 ^ ENCODED_DATA_BITS) - 1
    /\ roi.height = 10
    /\ decoded.ms = Some(1048575)

\* C6 as claimed: flipping any one of the 25 bits of a valid grid makes the
\* decoder return an absent value.
C6_Original ==
    (pc = "decoded" /\ flip # 0) => decoded.ms = None

\* C6 as amended: flipping any one bit other than the one that carries bit
\* 7 of the payload makes the decoder return an absent value; flipping that
\* one yields a grid with a matching checksum, decoded as the payload with
\* bit 7 inverted.
C6_SingleBitFlip ==
    /\ (pc = "decoded" /\ flip # 0 /\ flip # CellOfBit7) => decoded.ms = None
    /\ (pc = "decoded" /\ flip = CellOfBit7) =>
            decoded.ms = Some(ToggleBit7(payload))

C6_Witness ==
    /\ pc = "decoded" /\ flip = 25
    /\ payload = 54321
    /\ decoded.ms = None
    /\ Len(decoded.metrics) = 25

(***************************************************************************)
(* decode_encoded_overlay_ms on every grid pattern: the 20 bits of a       *)
(* payload followed by any 5 bits, and on regions too small for a grid.    *)
(***************************************************************************)
\* a region of one colour
Plain(h, w, colour) == Image(h, w, [p \in Pixels(h, w) |-> colour])

\* the regions of fewer than 5 rows or fewer than 5 columns
SmallShapes ==
    (((0 .. ENCODED_GRID_SIZE) \X (0 .. ENCODED_GRID_SIZE))
        \ {<<ENCODED_GRID_SIZE, ENCODED_GRID_SIZE>>})
    \cup {<<ENCODED_GRID_SIZE - 1, 2 * ENCODED_GRID_SIZE>>,
          <<2 * ENCODED_GRID_SIZE, ENCODED_GRID_SIZE - 1>>}

SmallRois == { Plain(s[1], s[2], colour) : s \in SmallShapes, colour \in {0, 255} }

GridRois ==
    { Render(p * (2 ^ ENCODED_CRC_BITS) + c, cell) :
        p \in Payloads, c \in 0 .. (2 ^ ENCODED_CRC_BITS) - 1, cell \in 1 .. MaxCell }
    \cup SmallRois

InitGrid ==
    /\ pc = "decode"
    /\ frame_results = <<>>
    /\ frames = <<>>
    /\ target_ms = 0
    /\ mode = ""
    /\ found = NotCalled
    /\ payload = 0
    /\ flip = 0
    /\ roi \in GridRois
    /\ decoded = NotDecoded
    /\ VideoIdle
    /\ CaptureIdle
    /\ CheckIdle
    /\ SessionIdle
    /\ GlyphIdle

NextGrid == DecodeGrid

SpecGrid == InitGrid /\ [][NextGrid]_vars

TooSmall(img) ==
    ImageSize(img) = 0 \/ img.height < ENCODED_GRID_SIZE \/ img.width < ENCODED_GRID_SIZE

\* bit k of the pattern drawn on a region whose cells are of one colour
\* each: 1 for a black cell, read at the cell's first pixel
PatternBit(img, k) ==
    IF img.px[<<CellOf(k).row * (img.height \div ENCODED_GRID_SIZE),
                CellOf(k).col * (img.width \div ENCODED_GRID_SIZE)>>] = 0
    THEN 1 ELSE 0

\* the unsigned integer of the bits from..to of the pattern, first bit highest
RECURSIVE PatternValue(_, _, _)
PatternValue(img, from, to) ==
    IF to < from THEN 0
    ELSE 2 * PatternValue(img, from, to - 1) + PatternBit(img, to)

\* C20: for every 25-bit grid pattern the decoder returns a present value
\* exactly when the last 5 bits are the low 5 bits of the CRC-32 of the
\* three big-endian bytes of the first 20 bits, and the value is then the
\* unsigned integer of the first 20 bits; a region of fewer than 5 rows or
\* columns, or an empty one, gives an absent value.
C20_ExactOrAbsent ==
    pc = "decoded" =>
        IF TooSmall(roi) THEN decoded.ms = None
        ELSE /\ decoded.ms # None <=>
                    PatternValue(roi, ENCODED_DATA_BITS + 1, ENCODED_TOTAL_BITS)
                        = ExpectedCrc(PatternValue(roi, 1, ENCODED_DATA_BITS))
             /\ decoded.ms # None =>
                    decoded.ms = Some(PatternValue(roi, 1, ENCODED_DATA_BITS))

\* the pattern of 54321 followed by 10011 (the low 5 bits of the CRC-32 of
\* 00 D4 31) is decoded to 54321
C20_Witness ==
    /\ pc = "decoded"
    /\ roi = Render(1738291, 2)
    /\ PatternValue(roi, 1, ENCODED_DATA_BITS) = 54321
    /\ PatternValue(roi, ENCODED_DATA_BITS + 1, ENCODED_TOTAL_BITS) = 19
    /\ decoded.ms = Some(54321)

(***************************************************************************)
(* The two functions that open the frame source, step by step.             *)
(***************************************************************************)
InitVideo ==
    /\ pc = "start"
    /\ frame_results = <<>>
    /\ frames = <<>>
    /\ target_ms = 0
    /\ mode = ""
    /\ found = NotCalled
    /\ DecoderIdle
    /\ fn \in {"run_template_matching_on_video", "_read_video_frame_at_ms"}
    /\ video \in VideoSamples
    /\ crop_rect \in CropRectSamples
    /\ memory \in {1, MaxFrames + 1}
    /\ cap = NoCap
    /\ total_frames = 0
    /\ frame_index = 0
    /\ frame_rate_fps = 0
    /\ error = ""
    /\ frame_out = None
    /\ actions = <<>>
    /\ actions_in = <<>>
    /\ action_pos = 0
    /\ updated_actions = <<>>
    /\ \/ files = <<>> /\ table = None
       \/ files = StaleDirectory /\ table = StaleTable
    /\ SessionIdle
    /\ GlyphIdle

videoInputs == <<fn, video, crop_rect, memory>>
otherVars == <<target_ms, mode, found, payload, flip, roi, decoded, captureVars,
               checkVars, sessionVars, glyphVars>>

\* cap = cv2.VideoCapture(str(video_path))
Open ==
    /\ pc = "start"
    /\ cap' = VideoCapture(video)
    /\ pc' = "opened"
    /\ UNCHANGED <<frame_results, frames, otherVars, videoInputs, total_frames,
                   frame_index, frame_rate_fps, error, frame_out>>

\* if not cap.isOpened(): raise RuntimeError
RunOpenFailed ==
    /\ pc = "opened" /\ fn = "run_template_matching_on_video"
    /\ ~cap.opened
    /\ error' = "RuntimeError"
    /\ pc' = "raised"
    /\ UNCHANGED <<frame_results, frames, otherVars, videoInputs, cap,
                   total_frames, frame_index, frame_rate_fps, frame_out>>

\* frame_rate_fps and total_frames, then the empty lists
RunSetup ==
    /\ pc = "opened" /\ fn = "run_template_matching_on_video"
    /\ cap.opened
    /\ frame_rate_fps' = FrameRate(video.fps)
    /\ total_frames' = Max(video.frame_count, 0)
    /\ frame_results' = <<>>
    /\ frames' = <<>>
    /\ frame_index' = 0
    /\ pc' = "loop"
    /\ UNCHANGED <<otherVars, videoInputs, cap, error, frame_out>>

\* one pass of the loop body on a frame that was read
RunFrame ==
    /\ pc = "loop" /\ frame_index < total_frames
    /\ ReadOk(cap, video)
    /\ LET frame == video.frames[cap.pos + 1] IN
        /\ cap' = [cap EXCEPT !.pos = cap.pos + 1]
        /\ frame_results' =
              AppendResult(frame_results, frame_index,
                           decode_encoded_overlay_ms(_crop_frame(frame, crop_rect)))
        /\ IF Len(frames) >= memory
           THEN /\ error' = "MemoryError"
                /\ pc' = "raised"
                /\ UNCHANGED <<frames, frame_index>>
           ELSE /\ frames' = Append(frames, frame)
                /\ frame_index' = frame_index + 1
                /\ UNCHANGED <<pc, error>>
    /\ UNCHANGED <<otherVars, videoInputs, total_frames, frame_rate_fps, frame_out>>

\* ok is false: break
RunReadFailed ==
    /\ pc = "loop" /\ frame_index < total_frames
    /\ ~ReadOk(cap, video)
    /\ pc' = "release"
    /\ UNCHANGED <<frame_results, frames, otherVars, videoVars>>

\* range(total_frames) is exhausted
RunLoopEnd ==
    /\ pc = "loop" /\ frame_index >= total_frames
    /\ pc' = "release"
    /\ UNCHANGED <<frame_results, frames, otherVars, videoVars>>

\* cap.release(); return frame_results, frames, frame_rate_fps
RunRelease ==
    /\ pc = "release"
    /\ cap' = Release(cap)
    /\ pc' = "returned"
    /\ UNCHANGED <<frame_results, frames, otherVars, videoInputs, total_frames,
                   frame_index, frame_rate_fps, error, frame_out>>

(***************************************************************************)
(* _read_video_frame_at_ms(video_path, target_ms)                          *)
(***************************************************************************)
ReadTargets == {0, 500, 1500}

\* if not cap.isOpened(): return None
ReadOpenFailed ==
    /\ pc = "opened" /\ fn = "_read_video_frame_at_ms"
    /\ ~cap.opened
    /\ frame_out' = None
    /\ pc' = "returned"
    /\ UNCHANGED <<frame_results, frames, otherVars, videoInputs, cap,
                   total_frames, frame_index, frame_rate_fps, error>>

\* int(round(x)) of an infinite fps product: nan for 0 * inf, else inf
ReadInfiniteFps ==
    /\ pc = "opened" /\ fn = "_read_video_frame_at_ms"
    /\ cap.opened
    /\ video.fps.kind = "inf"
    /\ \E t \in ReadTargets :
        error' = IF Max(0, t) = 0 THEN "ValueError" ELSE "OverflowError"
    /\ pc' = "raised"
    /\ UNCHANGED <<frame_results, frames, otherVars, videoInputs, cap,
                   total_frames, frame_index, frame_rate_fps, frame_out>>

\* seek to the requested index, read one frame, release, return it
ReadSeekAndRead ==
    /\ pc = "opened" /\ fn = "_read_video_frame_at_ms"
    /\ cap.opened
    /\ video.fps.kind # "inf"
    /\ \E t \in ReadTargets :
        LET safe_total_frames == Max(video.frame_count, 1)
            requested_idx ==
                IF video.fps.kind = "finite" /\ video.fps.value > 0
                THEN RoundHalfEven(Max(0, t) * video.fps.value, 1000)
                ELSE 0
            idx == Max(0, Min(requested_idx, safe_total_frames - 1))
            sought == [cap EXCEPT !.pos = idx]
        IN  /\ frame_out' = IF ReadOk(sought, video)
                            THEN Some(video.frames[idx + 1]) ELSE None
            /\ cap' = Release([sought EXCEPT !.pos =
                                  IF ReadOk(sought, video) THEN idx + 1 ELSE idx])
    /\ pc' = "returned"
    /\ UNCHANGED <<frame_results, frames, otherVars, videoInputs,
                   total_frames, frame_index, frame_rate_fps, error>>

(***************************************************************************)
(* write_number_check_outputs on what the frame pass returned, as          *)
(* process_session calls it; a second call is a re-run of the export.      *)
(***************************************************************************)
WriteNumberCheckOutputs ==
    /\ fn = "run_template_matching_on_video"
    /\ pc \in {"returned", "checked"}
    /\ LET available_count == Min(Len(frame_results), Len(frames))
           indices == SecondFrameIndices(available_count, frame_rate_fps)
       IN  IF available_count <= 0
           THEN /\ files' = ClearStaleImages(files)
                /\ table' = Some(<<>>)
           ELSE /\ files' = WriteScreenshots(ClearStaleImages(files), indices,
                                             frames, crop_rect)
                /\ table' = Some(TableRows(indices, frame_results))
    /\ pc' = "checked"
    /\ UNCHANGED <<glyphVars, frame_results, frames, resolverVars, decoderVars, videoVars,
                   actions, actions_in, action_pos, updated_actions, sessionVars>>

NextVideo ==
    \/ Open
    \/ RunOpenFailed
    \/ RunSetup
    \/ RunFrame
    \/ RunReadFailed
    \/ RunLoopEnd
    \/ RunRelease
    \/ ReadOpenFailed
    \/ ReadInfiniteFps
    \/ ReadSeekAndRead
    \/ WriteNumberCheckOutputs

SpecVideo == InitVideo /\ [][NextVideo]_vars

Running == fn = "run_template_matching_on_video"

\* the frames the pass reads: the file's frames, at most total_frames
ReadableFrames == Min(Len(video.frames), Max(video.frame_count, 0))

\* C7: when run_template_matching_on_video returns, the timeline has one
\* record per frame read before the first failing read (at most
\* total_frames), record i has frame_index i, the frames are retained in the
\* same order, and each record carries its frame's decode outcome, absent
\* or not; the pass raises only when the source does not open or memory
\* runs out, never because the source ends early.
C7_Timeline ==
    /\ (Running /\ pc = "returned") =>
            /\ Len(frame_results) = ReadableFrames
            /\ \A i \in 1 .. Len(frame_results) :
                    /\ frame_results[i].frame_index = i - 1
                    /\ frame_results[i].ms =
                          decode_encoded_overlay_ms(
                              _crop_frame(video.frames[i], crop_rect)).ms
            /\ frames = SubSeq(video.frames, 1, ReadableFrames)
    /\ (Running /\ pc = "raised") =>
            \/ error = "RuntimeError" /\ ~video.opens
            \/ error = "MemoryError" /\ Len(frames) = memory

\* an early end after two frames, the first decoded absent
C7_Witness ==
    /\ Running /\ pc = "returned"
    /\ video.frame_count = 3
    /\ Len(video.frames) = 2
    /\ Len(frame_results) = 2
    /\ frame_results[1].ms = None
    /\ frame_results[2].ms = Some(1)
    /\ frame_results[2].frame_index = 1

\* C8: when either function has returned or raised, a frame source that
\* it opened has been released.
C8_Released ==
    (pc \in {"returned", "raised"} /\ cap.opened) => cap.released

\* the decoded value of timeline record i
MsOf(i) == Val(frame_results[i].ms)

\* C11 as claimed: every record of the timeline the frame pass builds has
\* a value that is absent or an integer in 0 .. 999999.
C11_Original ==
    Running =>
        \A i \in 1 .. Len(frame_results) :
            HasMs(frame_results[i]) => (MsOf(i) >= 0 /\ MsOf(i) <= 999999)

\* C11 as amended: every record of the timeline the frame pass builds has
\* a value that is absent or an integer in 0 .. 2^20 - 1 (1048575), the
\* range of the 20 payload bits of the grid.
C11_ValueRange ==
    Running =>
        \A i \in 1 .. Len(frame_results) :
            HasMs(frame_results[i]) => (MsOf(i) >= 0 /\ MsOf(i) <= 1048575)

\* a frame whose grid carries the largest payload, and one decoded absent
C11_Witness ==
    /\ Running /\ pc = "returned"
    /\ Len(frame_results) = 2
    /\ frame_results[1].ms = Some(1048575)
    /\ frame_results[2].ms = None

\* the rows of the table, <<>> when no table was written
Rows == IF table = None THEN <<>> ELSE Val(table)

\* the second_*.png files of the directory
SecondImages ==
    {f \in DOMAIN files :
        Len(f) >= 11 /\ SubSeq(f, 1, 7) = "second_"
                     /\ SubSeq(f, Len(f) - 3, Len(f)) = ".png"}

\* C14: once write_number_check_outputs has returned, whatever the
\* directory held before, its second_*.png files are exactly the
\* screenshots named in the rows of the table this run wrote (with zero
\* frames: none), and running the export again on the same inputs changes
\* neither the directory nor the table.
C14_NoStaleImages ==
    /\ [](pc = "checked" =>
            SecondImages = {Rows[k].screenshot_name : k \in 1 .. Len(Rows)})
    /\ [][pc = "checked" => (files' = files /\ table' = table)]_vars

\* a directory that held images of an earlier run, rewritten for two frames
C14_Witness ==
    /\ pc = "checked"
    /\ "notes.png" \in DOMAIN files
    /\ "second_999999.png" \notin DOMAIN files
    /\ frame_rate_fps = 0
    /\ Len(Rows) = 2
    /\ SecondImages = {"second_000000.png", "second_000001.png"}
    /\ files["second_000000.png"] # StaleImage

\* the names the export gives to seconds 0, 1, 2, ...
ExpectedNames ==
    <<"second_000000.png", "second_000001.png", "second_000002.png",
      "second_000003.png", "second_000004.png", "second_000005.png">>

\* C15: when the frame source reports a frame rate that is not finite or
\* not positive, frame_rate_fps is 0 and the check export writes one
\* screenshot and one row per frame read, row k taken from frame k.
C15_UnknownFrameRate ==
    (Running /\ pc \in {"returned", "checked"}
        /\ (video.fps.kind # "finite" \/ video.fps.value <= 0)) =>
        /\ frame_rate_fps = 0
        /\ pc = "checked" =>
            /\ Len(Rows) = Len(frames)
            /\ Cardinality(SecondImages) = Len(frames)
            /\ \A k \in 0 .. Len(frames) - 1 :
                /\ Rows[k + 1].screenshot_name = ExpectedNames[k + 1]
                /\ Rows[k + 1].id = ToString(k)
                /\ Rows[k + 1].ocr_ms = MsCell(frame_results[k + 1].ms)
                /\ files[ExpectedNames[k + 1]] = _crop_frame(video.frames[k + 1], crop_rect)

\* three frames of a source that reports nan frames per second
C15_Witness ==
    /\ Running /\ pc = "checked"
    /\ video.fps.kind = "nan"
    /\ Len(frames) = 3
    /\ Len(Rows) = 3
    /\ Rows[3].id = "2"
    /\ crop_rect = Some(Rect(1, 0, 4, 5))
    /\ files["second_000002.png"].width = 4

(***************************************************************************)
(* capture_action_screenshots, one pass of its loop at a time.             *)
(***************************************************************************)
InitCapture ==
    /\ pc = "capture"
    /\ \E values \in UNION {[1 .. n -> CaptureMs] : n \in 0 .. MaxTimeline} :
        /\ frame_results = BuiltTimeline(values)
        /\ frames = RetainedFrames(Len(values))
    /\ target_ms = 0
    /\ mode = ""
    /\ found = NotCalled
    /\ DecoderIdle
    /\ VideoIdle
    /\ actions \in ActionLists
    /\ actions_in = actions
    /\ action_pos = 0
    /\ updated_actions = <<>>
    /\ files = <<>>
    /\ CheckIdle
    /\ SessionIdle
    /\ GlyphIdle

\* the loop body on the next action
CaptureAction ==
    /\ pc = "capture" /\ action_pos < Len(actions)
    /\ LET action == actions[action_pos + 1]
           target == TargetMs(action)
           times == ScreenshotTimes(target)
           before_idx == find_frame_index(frame_results, times.before, "at_or_before").value
           at_idx == find_frame_index(frame_results, times.at, "at_or_before").value
           after_idx == find_frame_index(frame_results, times.after, "at_or_after").value
           paths == ScreenshotPaths(ActionId(action))
           written1 == WriteFile(files, paths.before, frames[before_idx + 1])
           written2 == WriteFile(written1, paths.at, frames[at_idx + 1])
           written3 == WriteFile(written2, paths.after, frames[after_idx + 1])
           action_copy == AugmentedCopy(action, times, paths)
       IN  IF ~InRange(frames, before_idx)
           THEN /\ error' = "IndexError"
                /\ pc' = "raised"
                /\ UNCHANGED <<captureVars>>
           ELSE IF ~InRange(frames, at_idx)
           THEN /\ error' = "IndexError"
                /\ pc' = "raised"
                /\ files' = written1
                /\ UNCHANGED <<actions, actions_in, action_pos, updated_actions>>
           ELSE IF ~InRange(frames, after_idx)
           THEN /\ error' = "IndexError"
                /\ pc' = "raised"
                /\ files' = written2
                /\ UNCHANGED <<actions, actions_in, action_pos, updated_actions>>
           ELSE /\ files' = written3
                /\ updated_actions' = Append(updated_actions, action_copy)
                /\ actions' = InputAfterCopy(actions, action_pos + 1, action_copy)
                /\ action_pos' = action_pos + 1
                /\ UNCHANGED <<pc, error, actions_in>>
    /\ UNCHANGED <<glyphVars, checkVars, sessionVars,
                   frame_results, frames, resolverVars, decoderVars,
                   fn, video, crop_rect, memory, cap, total_frames, frame_index,
                   frame_rate_fps, frame_out>>

\* return updated_actions
CaptureReturn ==
    /\ pc = "capture" /\ action_pos >= Len(actions)
    /\ pc' = "returned"
    /\ UNCHANGED <<glyphVars, checkVars, sessionVars,
                   frame_results, frames, resolverVars, decoderVars, videoVars,
                   captureVars>>

NextCapture == CaptureAction \/ CaptureReturn

SpecCapture == InitCapture /\ [][NextCapture]_vars

\* the nanoseconds of an input action, 0 when the field is missing or null
NsOf(action) ==
    IF Get(action, "timeSinceVideoStartNs") = None THEN 0
    ELSE Val(action["timeSinceVideoStartNs"])

Abs(x) == IF x < 0 THEN 0 - x ELSE x

\* the index find_frame_index resolves for a target and a mode
Resolved(target, m) == find_frame_index(frame_results, target, m).value

\* C9: every action processed gets screenshotTimesMs = {before:
\* max(target-300, 0), at: target, after: target+800} with target the
\* nearest millisecond to its timeSinceVideoStartNs (0 when missing), and
\* right after it is processed its three files hold the frames at the
\* indices find_frame_index resolves in modes at_or_before, at_or_before and
\* at_or_after.
C9_Screenshots ==
    \A i \in 1 .. Len(updated_actions) :
        LET u == updated_actions[i]
            target == u["screenshotTimesMs"].at
            name == ActionId(actions_in[i])
        IN  /\ 2 * Abs(target * 1000000 - NsOf(actions_in[i])) <= 1000000
            /\ u["screenshotTimesMs"].before = (IF target > 300 THEN target - 300 ELSE 0)
            /\ u["screenshotTimesMs"].after = target + 800
            /\ u["screenshots"] = [before |-> name \o "_before.png",
                                   at |-> name \o "_at.png",
                                   after |-> name \o "_after.png"]
            /\ i = Len(updated_actions) =>
                /\ files[u["screenshots"].before] =
                      frames[Resolved(u["screenshotTimesMs"].before, "at_or_before") + 1]
                /\ files[u["screenshots"].at] =
                      frames[Resolved(target, "at_or_before") + 1]
                /\ files[u["screenshots"].after] =
                      frames[Resolved(target + 800, "at_or_after") + 1]

\* an action at 500 ms over frames decoded 500 and 1300
C9_Witness ==
    /\ pc = "returned"
    /\ Len(updated_actions) = 2
    /\ Get(actions_in[1], "timeSinceVideoStartNs") = None
    /\ updated_actions[1]["screenshotTimesMs"] = [before |-> 0, at |-> 0, after |-> 800]
    /\ updated_actions[2]["screenshotTimesMs"] = [before |-> 200, at |-> 500, after |-> 1300]
    /\ Len(frames) = 2
    /\ frame_results[1].ms = Some(500)
    /\ frame_results[2].ms = Some(1300)
    /\ "actionId" \in DOMAIN actions_in[2]
    /\ files["a1_before.png"] = frames[1]
    /\ files["a1_at.png"] = frames[1]
    /\ files["a1_after.png"] = frames[2]

AddedKeys == {"screenshotTimesMs", "screenshots"}

\* the input list is never changed, and a returned list has one record per
\* input action
C10_InputKept ==
    /\ actions = actions_in
    /\ pc = "returned" => Len(updated_actions) = Len(actions_in)

\* C10 as claimed: the input is unchanged and the returned list has one
\* record per input action, in order, each with every original field at
\* its original value and exactly screenshotTimesMs and screenshots added.
C10_Original ==
    /\ C10_InputKept
    /\ pc = "returned" =>
        \A i \in 1 .. Len(updated_actions) :
            /\ \A k \in DOMAIN actions_in[i] :
                    updated_actions[i][k] = actions_in[i][k]
            /\ DOMAIN updated_actions[i] \ DOMAIN actions_in[i] = AddedKeys

\* C10 as amended: the input is unchanged and the returned list has one
\* record per input action, in order, whose fields are the original ones
\* and the two fields screenshotTimesMs and screenshots; every original
\* field other than these two keeps its value, and these two hold the
\* values of this run, replacing those an input action already carried.
C10_AugmentedCopy ==
    /\ C10_InputKept
    /\ pc = "returned" =>
        \A i \in 1 .. Len(updated_actions) :
            /\ DOMAIN updated_actions[i] = DOMAIN actions_in[i] \cup AddedKeys
            /\ \A k \in DOMAIN actions_in[i] \ AddedKeys :
                    updated_actions[i][k] = actions_in[i][k]
            /\ updated_actions[i]["screenshotTimesMs"] =
                    ScreenshotTimes(TargetMs(actions_in[i]))
            /\ updated_actions[i]["screenshots"] =
                    ScreenshotPaths(ActionId(actions_in[i]))

\* an action that came with both fields and one that came with neither
C10_Witness ==
    /\ pc = "returned"
    /\ Len(updated_actions) = 2
    /\ "screenshots" \in DOMAIN actions_in[1]
    /\ actions_in[1]["screenshotTimesMs"] = StaleTimes
    /\ updated_actions[1]["screenshotTimesMs"] # StaleTimes
    /\ "screenshots" \notin DOMAIN actions_in[2]
    /\ "screenshots" \in DOMAIN updated_actions[2]
    /\ actions[1] = actions_in[1]

\* the three indices the loop body resolves for an action
IndicesFor(action) ==
    { Resolved(BeforeTarget(TargetMs(action)), "at_or_before"),
      Resolved(TargetMs(action), "at_or_before"),
      Resolved(AfterTarget(TargetMs(action)), "at_or_after") }

\* C21: on a timeline the frame pass builds, with one retained frame per
\* record, every index the exporter reads the frames at is within
\* 0 .. len(frames) - 1 for every action of the list, and the export never
\* fails with an out-of-range access; a timeline without present values
\* and a video without a readable frame included.
C21_IndexInRange ==
    /\ error # "IndexError"
    /\ \A i \in 1 .. Len(actions_in) :
            \A idx \in IndicesFor(actions_in[i]) : 0 <= idx /\ idx <= Len(frames) - 1

\* C21 where it does hold: with at least one retained frame, every index is
\* in range and no pass of the loop fails.
C21_NonEmptyVideo ==
    Len(frames) > 0 =>
        /\ error # "IndexError"
        /\ \A i \in 1 .. Len(actions_in) :
                \A idx \in IndicesFor(actions_in[i]) : 0 <= idx /\ idx <= Len(frames) - 1

\* the present values of the timeline do not decrease in frame order
ValuesNonDecreasing ==
    \A i, j \in 1 .. Len(frame_results) :
        (i < j /\ frame_results[i].ms # None /\ frame_results[j].ms # None)
            => Val(frame_results[i].ms) <= Val(frame_results[j].ms)

\* the index of the retained frame a file holds: its gray level
IndexIn(path) == files[path].px[<<0, 0>>]

PathsOf(i) ==
    { updated_actions[i]["screenshots"].before,
      updated_actions[i]["screenshots"].at,
      updated_actions[i]["screenshots"].after }

\* C23: in one run, two different actions of the list never write to the
\* same screenshot file, so that after the run there are three files per
\* action; actions without an actionId and actions that share an actionId
\* included.
C23_NoOverwrite ==
    /\ \A i, j \in 1 .. Len(updated_actions) : i # j => PathsOf(i) \cap PathsOf(j) = {}
    /\ pc = "returned" => Cardinality(DOMAIN files) = 3 * Len(updated_actions)

\* C23 where it does hold: two actions whose names differ never write to
\* the same file.
C23_DistinctNames ==
    \A i, j \in 1 .. Len(updated_actions) :
        ActionId(actions_in[i]) # ActionId(actions_in[j])
            => PathsOf(i) \cap PathsOf(j) = {}

(***************************************************************************)
(* determine_crop_rect on an action log.                                   *)
(***************************************************************************)
InitCrop ==
    /\ pc = "crop"
    /\ frame_results = <<>>
    /\ frames = <<>>
    /\ target_ms = 0
    /\ mode = ""
    /\ found = NotCalled
    /\ DecoderIdle
    /\ VideoIdle
    /\ actions \in CropActionLists
    /\ actions_in = actions
    /\ action_pos = 0
    /\ updated_actions = <<>>
    /\ files = <<>>
    /\ CheckIdle
    /\ SessionIdle
    /\ GlyphIdle

\* crop_rect = determine_crop_rect(actions)
DetermineCropRect ==
    /\ pc = "crop"
    /\ crop_rect' = Some(determine_crop_rect(actions))
    /\ pc' = "cropped"
    /\ UNCHANGED <<glyphVars, checkVars, sessionVars,
                   frame_results, frames, resolverVars, decoderVars, captureVars,
                   fn, video, memory, cap, total_frames, frame_index,
                   frame_rate_fps, error, frame_out>>

NextCrop == DetermineCropRect

SpecCrop == InitCrop /\ [][NextCrop]_vars

\* a value that converts to an integer, and the integer
Converts(v) ==
    \/ v.kind = "int"
    \/ v.kind = "float"
    \/ v.kind = "str" /\ IntOfStr(v.text).kind = "return"

Converted(v) ==
    IF v.kind = "int" THEN v.value
    ELSE IF v.kind = "float" THEN Truncate(v.num, v.den)
    ELSE IntOfStr(v.text).value

\* field `key` of action i is a valid rectangle
ValidRectAt(i, key) ==
    /\ key \in DOMAIN actions[i]
    /\ actions[i][key].kind = "dict"
    /\ {"left", "top", "width", "height"} \subseteq DOMAIN actions[i][key].fields
    /\ \A k \in {"left", "top", "width", "height"} :
            Converts(actions[i][key].fields[k])
    /\ Converted(actions[i][key].fields["width"]) > 0
    /\ Converted(actions[i][key].fields["height"]) > 0

RectAt(i, key) ==
    Rect(Converted(actions[i][key].fields["left"]),
         Converted(actions[i][key].fields["top"]),
         Converted(actions[i][key].fields["width"]),
         Converted(actions[i][key].fields["height"]))

PositionsWith(key) == {i \in 1 .. Len(actions) : ValidRectAt(i, key)}

\* C12: determine_crop_rect returns the first valid encodedOcrCropRect of
\* any action; when no action has one, the first valid ocrCropRect; when
\* there is none either, (0, 0, 120, 50).  A rectangle is valid when it is
\* a dict whose left, top, width and height all convert to integers, with
\* width > 0 and height > 0.
C12_CropRectPriority ==
    pc = "cropped" =>
        crop_rect =
            Some(IF PositionsWith("encodedOcrCropRect") # {}
                 THEN RectAt(First(PositionsWith("encodedOcrCropRect")),
                             "encodedOcrCropRect")
                 ELSE IF PositionsWith("ocrCropRect") # {}
                 THEN RectAt(First(PositionsWith("ocrCropRect")), "ocrCropRect")
                 ELSE Rect(0, 0, 120, 50))

\* an earlier action with a valid ocrCropRect, a later one with a valid
\* encodedOcrCropRect
C12_Witness ==
    /\ pc = "cropped"
    /\ Len(actions) = 2
    /\ ValidRectAt(1, "ocrCropRect")
    /\ "encodedOcrCropRect" \notin DOMAIN actions[1]
    /\ ValidRectAt(2, "encodedOcrCropRect")
    /\ crop_rect = Some(Rect(10, 20, 30, 40))

\* C13: the rectangle determine_crop_rect selects has left >= 0, top >= 0,
\* width > 0 and height > 0.
C13_NonNegative ==
    pc = "cropped" =>
        /\ Val(crop_rect).left >= 0
        /\ Val(crop_rect).top >= 0
        /\ Val(crop_rect).width > 0
        /\ Val(crop_rect).height > 0

(***************************************************************************)
(* main, one session at a time.                                            *)
(***************************************************************************)
InitMain ==
    /\ pc = "main"
    /\ frame_results = <<>>
    /\ frames = <<>>
    /\ target_ms = 0
    /\ mode = ""
    /\ found = NotCalled
    /\ DecoderIdle
    /\ VideoIdle
    /\ CaptureIdle
    /\ CheckIdle
    /\ input_dir \in DirectorySamples
    /\ session_dirs = <<>>
    /\ session_pos = 0
    /\ outputs = <<>>
    /\ GlyphIdle

mainUnchanged ==
    <<frame_results, frames, resolverVars, decoderVars, captureVars, checkVars,
      fn, video, crop_rect, memory, cap, total_frames, frame_index,
      frame_rate_fps, frame_out, input_dir, glyphVars>>

\* the checks of input_dir, then resolve_session_dirs(input_dir)
MainResolve ==
    /\ pc = "main"
    /\ IF ~input_dir.exists \/ ~input_dir.is_dir
            \/ resolve_session_dirs(input_dir).kind = "raise"
       THEN /\ error' = "RuntimeError"
            /\ pc' = "raised"
            /\ UNCHANGED <<session_dirs, outputs>>
       ELSE /\ session_dirs' = resolve_session_dirs(input_dir).value
            /\ outputs' = [n \in {resolve_session_dirs(input_dir).value[i].name :
                                    i \in 1 .. Len(resolve_session_dirs(input_dir).value)}
                            |-> {}]
            /\ pc' = "sessions"
            /\ UNCHANGED error
    /\ UNCHANGED <<mainUnchanged, session_pos>>

\* one pass of the loop: process_session(session_dir, ...)
ProcessSession ==
    /\ pc = "sessions" /\ session_pos < Len(session_dirs)
    /\ LET session == session_dirs[session_pos + 1]
           outcome == process_session(session.entry)
       IN  /\ outputs' = [outputs EXCEPT ![session.name] = outcome.written]
           /\ IF outcome.error # ""
              THEN /\ error' = outcome.error
                   /\ pc' = "raised"
                   /\ UNCHANGED session_pos
              ELSE /\ session_pos' = session_pos + 1
                   /\ UNCHANGED <<pc, error>>
    /\ UNCHANGED <<mainUnchanged, session_dirs>>

\* the loop is over
MainReturn ==
    /\ pc = "sessions" /\ session_pos >= Len(session_dirs)
    /\ pc' = "returned"
    /\ UNCHANGED <<mainUnchanged, session_dirs, session_pos, outputs, error>>

NextMain == MainResolve \/ ProcessSession \/ MainReturn

SpecMain == InitMain /\ [][NextMain]_vars

\* session i of the list lacks its action log or its video file
Lacking(i) == ~session_dirs[i].entry.actions \/ ~session_dirs[i].entry.video

AllOutputs ==
    {"ocr_ms_per_frame.txt", "ocr_ms_per_frame_table.csv",
     "check_number_ocr/screenshot_number_table.csv", "actions.json"}

\* C16: the sessions of a parent directory are taken in the order of their
\* names; a session that lacks its action log or its video file never gets
\* an output and never is where main stops with an error; every session
\* before the one main has reached has all its outputs when it is complete,
\* and when main returns it has reached the end of the list.
C16_SkipIncomplete ==
    /\ \A i \in 1 .. Len(session_dirs) :
        /\ Lacking(i) => outputs[session_dirs[i].name] = {}
        /\ (i <= session_pos /\ ~Lacking(i)) =>
                outputs[session_dirs[i].name] = AllOutputs
        /\ \A j \in 1 .. Len(session_dirs) :
                i < j => session_dirs[i].name < session_dirs[j].name
    /\ (pc \in {"sessions", "returned"} /\ ~input_dir.is_session) =>
            {session_dirs[i].name : i \in 1 .. Len(session_dirs)} =
                {n \in DOMAIN input_dir.children :
                    input_dir.children[n].is_dir /\ input_dir.children[n].scriber}
    /\ (pc = "raised" /\ session_dirs # <<>>) => ~Lacking(session_pos + 1)
    /\ pc = "returned" => session_pos = Len(session_dirs)

\* three sessions: no action log, no video, then a complete one
C16_Witness ==
    /\ pc = "returned"
    /\ Len(session_dirs) = 3
    /\ ~session_dirs[1].entry.actions /\ session_dirs[1].entry.video
    /\ session_dirs[2].entry.actions /\ ~session_dirs[2].entry.video
    /\ ~Lacking(3)
    /\ outputs[session_dirs[1].name] = {}
    /\ outputs[session_dirs[2].name] = {}
    /\ outputs[session_dirs[3].name] = AllOutputs
    /\ error = ""

(***************************************************************************)
(* _extract_digit_crops on a region and its binary image.                  *)
(***************************************************************************)
InitSegment ==
    /\ pc = "segment"
    /\ frame_results = <<>>
    /\ frames = <<>>
    /\ target_ms = 0
    /\ mode = ""
    /\ found = NotCalled
    /\ payload = 0
    /\ flip = 0
    /\ roi \in SegmentRois
    /\ decoded = NotDecoded
    /\ VideoIdle
    /\ CaptureIdle
    /\ CheckIdle
    /\ SessionIdle
    /\ GlyphIdle

glyphUnchanged ==
    <<frame_results, frames, resolverVars, decoderVars, videoVars, captureVars,
      checkVars, sessionVars, templates, digit_count, min_score>>

ExtractDigitCrops ==
    /\ pc = "segment"
    /\ non_black_mask' = NonBlackColumns(_build_otsu_binary(roi))
    /\ column_ranges' = _find_non_black_ranges(NonBlackColumns(_build_otsu_binary(roi)))
    /\ digit_crops' = _extract_digit_crops(roi, _build_otsu_binary(roi))
    /\ pc' = "segmented"
    /\ UNCHANGED <<glyphUnchanged, digit_matches, template_match>>

NextSegment == ExtractDigitCrops

SpecSegment == InitSegment /\ [][NextSegment]_vars

\* the foreground columns of the mask, numbered from 0
ForegroundColumns == {x \in 0 .. Len(non_black_mask) - 1 : non_black_mask[x + 1]}

\* the columns of the k-th range
ColumnsOf(k) == column_ranges[k][1] .. (column_ranges[k][2] - 1)

\* C19: the ranges returned for a mask are half-open ranges [start, end) in
\* increasing order, with at least one blank column between two of them,
\* each a maximal run of foreground columns, and together they cover
\* exactly the foreground columns; a blank or empty mask gives no range and
\* no glyph, and there is one glyph per range.
C19_MaximalRuns ==
    pc = "segmented" =>
        /\ \A k \in 1 .. Len(column_ranges) :
            /\ 0 <= column_ranges[k][1]
            /\ column_ranges[k][1] < column_ranges[k][2]
            /\ column_ranges[k][2] <= Len(non_black_mask)
            /\ ColumnsOf(k) \subseteq ForegroundColumns
            /\ (column_ranges[k][1] - 1) \notin ForegroundColumns
            /\ column_ranges[k][2] \notin ForegroundColumns
            /\ k < Len(column_ranges) => column_ranges[k][2] < column_ranges[k + 1][1]
        /\ UNION {ColumnsOf(k) : k \in 1 .. Len(column_ranges)} = ForegroundColumns
        /\ ForegroundColumns = {} => column_ranges = <<>>
        /\ Len(digit_crops) = Len(column_ranges)

\* a run that starts at column 0 and one that ends at the last column
C19_Witness ==
    /\ pc = "segmented"
    /\ non_black_mask = <<TRUE, TRUE, FALSE, FALSE, TRUE>>
    /\ column_ranges = << <<0, 2>>, <<4, 5>> >>
    /\ Len(digit_crops) = 2
    /\ digit_crops[1].width = 2

(***************************************************************************)
(* match_overlay_digits on a region, a template dict, a digit count and a  *)
(* minimum score.                                                          *)
(***************************************************************************)
InitMatch ==
    /\ pc = "match"
    /\ frame_results = <<>>
    /\ frames = <<>>
    /\ target_ms = 0
    /\ mode = ""
    /\ found = NotCalled
    /\ payload = 0
    /\ flip = 0
    /\ roi \in MatchRois
    /\ decoded = NotDecoded
    /\ VideoIdle
    /\ CaptureIdle
    /\ CheckIdle
    /\ SessionIdle
    /\ templates \in TemplateDicts
    /\ digit_count \in 1 .. MaxDigits
    /\ min_score \in MinScores
    /\ non_black_mask = <<>>
    /\ column_ranges = <<>>
    /\ digit_crops = <<>>
    /\ digit_matches = <<>>
    /\ template_match = NoMatch

MatchOverlayDigits ==
    /\ pc = "match"
    /\ IF ImageSize(roi) = 0 \/ Len(templates) = 0
       THEN UNCHANGED <<non_black_mask, column_ranges, digit_crops, digit_matches>>
       ELSE /\ non_black_mask' = NonBlackColumns(_build_otsu_binary(roi))
            /\ column_ranges' =
                  _find_non_black_ranges(NonBlackColumns(_build_otsu_binary(roi)))
            /\ digit_crops' = FirstCrops(roi, digit_count)
            /\ digit_matches' = Matches(FirstCrops(roi, digit_count), templates)
    /\ template_match' = match_overlay_digits(roi, templates, digit_count, min_score)
    /\ pc' = "matched"
    /\ UNCHANGED glyphUnchanged

NextMatch == MatchOverlayDigits

SpecMatch == InitMatch /\ [][NextMatch]_vars

\* the glyphs matched to a digit, and the digits in order
MatchedCount == Cardinality({k \in 1 .. Len(digit_matches) : digit_matches[k].digit # None})

MatchedText == Joined(digit_matches, Len(digit_matches))

\* the sum of the metrics that are present among the first n
RECURSIVE PresentSum(_)
PresentSum(n) ==
    IF n = 0 THEN Metric(0, 1)
    ELSE IF template_match.digit_metrics[n] = None THEN PresentSum(n - 1)
    ELSE LET rest == PresentSum(n - 1)
             m == Val(template_match.digit_metrics[n])
         IN  Metric(rest.num * m.den + m.num * rest.den, rest.den * m.den)

PresentMetricCount ==
    Cardinality({n \in 1 .. Len(template_match.digit_metrics) :
                    template_match.digit_metrics[n] # None})

\* the score is in [0, 1] and is the mean of the metrics that are present,
\* 0 when there is none; there are digit_count metrics
ScoreIsMeanOfPresent ==
    /\ Len(template_match.digit_metrics) = digit_count
    /\ template_match.score.num >= 0
    /\ template_match.score.num <= template_match.score.den
    /\ IF PresentMetricCount = 0 THEN template_match.score.num = 0
       ELSE template_match.score.num * PresentSum(digit_count).den * PresentMetricCount
                = PresentSum(digit_count).num * template_match.score.den

Rejected == MatchedCount # digit_count \/ Below(template_match.score, min_score)

\* C17 as claimed: the value is absent when the number of matched glyphs
\* differs from digit_count or the score is below min_score, and in every
\* other case it is the integer the matched digits spell.
C17_Original ==
    pc = "matched" =>
        /\ ScoreIsMeanOfPresent
        /\ Rejected => template_match.value = None
        /\ ~Rejected =>
                template_match.value = Some(DigitsValue(MatchedText, Len(MatchedText)))

\* C17 as amended: the value is absent when the number of matched glyphs
\* differs from digit_count, when the score is below min_score, or when the
\* integer the matched digits spell is above 999999; in every other case it
\* is that integer.
C17_MatchedValue ==
    pc = "matched" =>
        /\ ScoreIsMeanOfPresent
        /\ Rejected => template_match.value = None
        /\ ~Rejected =>
                template_match.value =
                    IF DigitsValue(MatchedText, Len(MatchedText)) > 999999 THEN None
                    ELSE Some(DigitsValue(MatchedText, Len(MatchedText)))

\* two wide glyphs and a narrow one read as 221 against the templates of
\* "2" and "1", each glyph equal to its template
C17_Witness ==
    /\ pc = "matched"
    /\ digit_count = 3
    /\ roi = RowImage(<<1, 1, 0, 1, 1, 0, 1>>)
    /\ Len(templates) = 2
    /\ min_score = Metric(43, 100)
    /\ MatchedText = "221"
    /\ template_match.value = Some(221)
    /\ template_match.score = Metric(1, 1)

\* the similarity of the k-th glyph to the t-th template
SimilarityOf(k, t) ==
    _compute_digit_similarity(
        _add_black_border(_normalize_binary_digit_image(digit_crops[k])),
        templates[t].image)

\* the templates of highest similarity to the k-th glyph
BestTemplates(k) ==
    {t \in 1 .. Len(templates) :
        \A u \in 1 .. Len(templates) : AtLeast(SimilarityOf(k, t), SimilarityOf(k, u))}

\* C18: the digit matched to a glyph is that of the first template, in the
\* order of the dict, among those of highest similarity.
C18_FirstOnTie ==
    pc = "matched" =>
        \A k \in 1 .. Len(digit_matches) :
            digit_matches[k].digit = Some(templates[First(BestTemplates(k))].digit)

====
